---- MODULE Spec2Model ----
(***************************************************************************)
(* Smart Broker module (multi-tenant real-estate CRM on Evolution API).    *)
(*                                                                         *)
(* Every service method is an operator that computes, from the stored      *)
(* documents and its arguments, the outcome of the call: the error kind    *)
(* (or "ok") and the documents after it.  An action applies one method to  *)
(* inputs drawn from small sets.  A request that ends in an error leaves   *)
(* the stores as the method left them when it threw.                       *)
(*                                                                         *)
(* Specifications:                                                         *)
(*   SpecAgency  users and agencies (agencies.service.ts);                 *)
(*   SpecCreate  agency create split at its store calls, so that creates   *)
(*               interleave with each other, with update and with remove;  *)
(*   Spec        properties, contacts and campaigns behind their routes;   *)
(*   SpecAgents  agent sessions (execute-goal and chat requests);          *)
(*   SpecExecute one campaign execution, split at its awaits;              *)
(*   SpecRace    an execution next to update and remove requests;          *)
(*   SpecRender  replaceVariables over bounded templates and contacts;     *)
(*   SpecRun     the agent's background run on one session;                *)
(*   SpecChat    a chat request next to the runs on the same session;      *)
(*   SpecTurns   SpecChat with the runs scheduled fairly;                  *)
(*   SpecFailing SpecExecute with store calls that can fail, scheduled     *)
(*               fairly;                                                   *)
(*   SpecTwice   two executions of one campaign;                           *)
(*   SpecAudience a campaign created with an explicit audience;            *)
(*   SpecRegister registration and login;                                  *)
(*   SpecToken   requests under a token issued earlier;                    *)
(*   SpecTools   the tools of an agent turn.                               *)
(***************************************************************************)
EXTENDS Integers, FiniteSets, Sequences, TLC

VARIABLES
    users,        \* User documents: userId -> [role, agencyId]
    agencies,     \* Agency documents: agencyId -> NoDoc or [cnpj, owner, members, isActive]
    pending,      \* create calls in flight: userId -> NoCall or [pc, cnpj, id]
    registered,   \* history: the cnpjs for which a create call has succeeded
    properties,   \* Property documents, in creation order
    contacts,     \* Contact documents, in creation order
    campaigns,    \* Campaign documents, in creation order
    sessions,     \* AgentSession documents, in creation order
    calls         \* calls in flight: slot -> NoCall or the call's local state

vars == <<users, agencies, pending, registered, properties, contacts, campaigns, sessions,
          calls>>

agencyVars == <<users, agencies, pending, registered>>
resourceVars == <<properties, contacts, campaigns, sessions, calls>>

(***************************************************************************)
(* Identities                                                              *)
(***************************************************************************)
None == "none"
NoDoc == [absent |-> TRUE]
NoCall == [pc |-> "idle"]

\* One execute, one update and one remove request on campaigns can be in
\* flight together.
Slots == {"execute", "execute2", "update", "remove", "render", "agent", "agent2", "chat", "login", "tool"}

ADMIN == "admin"
MANAGER == "manager"
AGENT == "agent"
VIEWER == "viewer"
UserRoles == {ADMIN, MANAGER, AGENT, VIEWER}

\* The identities requests are made under, each with the role chosen at
\* registration.
UserIds == {"adm", "mgr1", "agt1", "agt2", "vwr1"}
RoleOf == [u \in UserIds |->
             CASE u = "adm" -> ADMIN
               [] u = "mgr1" -> MANAGER
               [] u \in {"agt1", "agt2"} -> AGENT
               [] OTHER -> VIEWER]

\* The users that hold a User document where agencies are administered.
Users == {"adm", "mgr1", "agt1"}

AgencyOrder == <<"A1", "A2">>
AgencyIds == {AgencyOrder[i] : i \in DOMAIN AgencyOrder}
Cnpjs == {"c1", "c2"}

\* The authenticated user a request carries: the token's payload.
AuthenticatedUser(u, r, a) == [userId |-> u, role |-> r, agencyId |-> a]

\* The token issued for user u now (login, register, refresh).
GenerateToken(u) == AuthenticatedUser(u, users[u].role, users[u].agencyId)

(***************************************************************************)
(* Route guard                                                             *)
(***************************************************************************)
RbacMiddleware(allowedRoles, user) == user.role \in allowedRoles

(***************************************************************************)
(* agencies.service.ts                                                     *)
(***************************************************************************)
AgencyOut(r, ag, us) == [result |-> r, agencies |-> ag, users |-> us]
AgencyFail(r) == AgencyOut(r, agencies, users)

Stored == {id \in AgencyIds : agencies[id] # NoDoc}

\* AgencyModel.findOne({ cnpj }): soft-deleted agencies are found too.
FindByCnpj(c) == {id \in Stored : agencies[id].cnpj = c}

MutNoUniqueIndex(c, self) == TRUE

\* The unique index on cnpj: a write that would store a second document with
\* the same cnpj is rejected by the store (duplicate key).
UniqueCnpjAdmits(c, self) == \A id \in Stored \ {self} : agencies[id].cnpj # c

\* new AgencyModel(...): the document gets a fresh identifier.
FreshAgencyId ==
    LET free == {i \in DOMAIN AgencyOrder : AgencyOrder[i] \notin Stored}
    IN AgencyOrder[CHOOSE i \in free : \A j \in free : i <= j]

\* create, up to its first store call: findOne({ cnpj }).
CreateFindOne(dto, user) ==
    IF FindByCnpj(dto.cnpj) # {} THEN "Conflict" ELSE "proceed"

\* create, second store call: agency.save().
CreateSave(c, u) ==
    IF ~UniqueCnpjAdmits(c, None)
    THEN AgencyFail("DuplicateKey")
    ELSE AgencyOut("ok",
                   [agencies EXCEPT ![FreshAgencyId] =
                       [cnpj |-> c, owner |-> u, members |-> {}, isActive |-> TRUE]],
                   users)

\* create, third store call: UserModel.findByIdAndUpdate(owner, { agencyId }).
CreateBindOwner(id, u) ==
    AgencyOut("ok", agencies, [users EXCEPT ![u].agencyId = id])

AgenciesUpdate(id, dto, user) ==
    IF agencies[id] = NoDoc THEN AgencyFail("NotFound")
    ELSE IF user.role # ADMIN /\ agencies[id].owner # user.userId
    THEN AgencyFail("Forbidden")
    ELSE IF dto.cnpj # None /\ dto.cnpj # agencies[id].cnpj
            /\ FindByCnpj(dto.cnpj) \ {id} # {}
    THEN AgencyFail("Conflict")
    ELSE AgencyOut("ok",
                   [agencies EXCEPT ![id].cnpj =
                       IF dto.cnpj # None THEN dto.cnpj ELSE @],
                   users)

MutAddMemberByTenantManager(agencyId, userId, user) ==
    IF agencies[agencyId] = NoDoc THEN AgencyFail("NotFound")
    ELSE IF user.role # ADMIN /\ agencies[agencyId].owner # user.userId
            /\ ~(user.role = MANAGER /\ user.agencyId = agencyId)
    THEN AgencyFail("Forbidden")
    ELSE IF userId \in agencies[agencyId].members THEN AgencyFail("Conflict")
    ELSE AgencyOut("ok",
                   [agencies EXCEPT ![agencyId].members = @ \cup {userId}],
                   [users EXCEPT ![userId].agencyId = agencyId])

AgenciesAddMember(agencyId, userId, user) ==
    IF agencies[agencyId] = NoDoc THEN AgencyFail("NotFound")
    ELSE IF user.role # ADMIN /\ agencies[agencyId].owner # user.userId
    THEN AgencyFail("Forbidden")
    ELSE IF userId \notin DOMAIN users THEN AgencyFail("NotFound")
    ELSE IF userId \in agencies[agencyId].members THEN AgencyFail("Conflict")
    ELSE AgencyOut("ok",
                   [agencies EXCEPT ![agencyId].members = @ \cup {userId}],
                   [users EXCEPT ![userId].agencyId = agencyId])

MutRemoveMemberOwnerUnchecked(agencyId, userId, user) ==
    IF agencies[agencyId] = NoDoc THEN AgencyFail("NotFound")
    ELSE IF user.role # ADMIN /\ agencies[agencyId].owner # user.userId
    THEN AgencyFail("Forbidden")
    ELSE AgencyOut("ok",
                   [agencies EXCEPT ![agencyId].members = @ \ {userId}],
                   [users EXCEPT ![userId].agencyId = None])

AgenciesRemoveMember(agencyId, userId, user) ==
    IF agencies[agencyId] = NoDoc THEN AgencyFail("NotFound")
    ELSE IF user.role # ADMIN /\ agencies[agencyId].owner # user.userId
    THEN AgencyFail("Forbidden")
    ELSE IF agencies[agencyId].owner = userId THEN AgencyFail("BadRequest")
    ELSE AgencyOut("ok",
                   [agencies EXCEPT ![agencyId].members = @ \ {userId}],
                   IF userId \in DOMAIN users
                   THEN [users EXCEPT ![userId].agencyId = None]
                   ELSE users)

MutRemoveClearsMembersOnly(id, user) ==
    IF user.role # ADMIN THEN AgencyFail("Forbidden")
    ELSE IF agencies[id] = NoDoc THEN AgencyFail("NotFound")
    ELSE AgencyOut("ok",
                   [agencies EXCEPT ![id].isActive = FALSE],
                   [u \in DOMAIN users |->
                       IF u \in agencies[id].members
                       THEN [users[u] EXCEPT !.agencyId = None]
                       ELSE users[u]])

AgenciesRemove(id, user) ==
    IF user.role # ADMIN THEN AgencyFail("Forbidden")
    ELSE IF agencies[id] = NoDoc THEN AgencyFail("NotFound")
    ELSE AgencyOut("ok",
                   [agencies EXCEPT ![id].isActive = FALSE],
                   [u \in DOMAIN users |->
                       IF users[u].agencyId = id
                       THEN [users[u] EXCEPT !.agencyId = None]
                       ELSE users[u]])

\* create as one call: findOne({ cnpj }), agency.save(), then the owner's
\* agencyId is set to the new agency.
AgenciesCreate(dto, user) ==
    IF CreateFindOne(dto, user) = "Conflict" THEN AgencyFail("Conflict")
    ELSE IF CreateSave(dto.cnpj, user.userId).result # "ok"
    THEN CreateSave(dto.cnpj, user.userId)
    ELSE AgencyOut("ok",
                   CreateSave(dto.cnpj, user.userId).agencies,
                   [users EXCEPT ![user.userId].agencyId = FreshAgencyId])

\* POST /agencies with no role guard in front of the service.
MutCreateUnguarded(dto, user) == AgenciesCreate(dto, user)

\* POST /agencies
RouteAgenciesCreate(dto, user) ==
    IF ~RbacMiddleware({ADMIN, MANAGER}, user) THEN AgencyFail("Forbidden")
    ELSE AgenciesCreate(dto, user)

\* DELETE /agencies/:id
RouteAgenciesRemove(id, user) ==
    IF ~RbacMiddleware({ADMIN}, user) THEN AgencyFail("Forbidden")
    ELSE AgenciesRemove(id, user)

(***************************************************************************)
(* Actions on users and agencies                                           *)
(***************************************************************************)
InitAgency ==
    /\ users = [u \in Users |-> [role |-> RoleOf[u], agencyId |-> None]]
    /\ agencies = [id \in AgencyIds |-> NoDoc]
    /\ pending = [u \in Users |-> NoCall]
    /\ registered = {}

InitResourcesIdle ==
    /\ properties = <<>>
    /\ contacts = <<>>
    /\ campaigns = <<>>
    /\ sessions = <<>>
    /\ calls = [slot \in Slots |-> NoCall]

Init == InitAgency /\ InitResourcesIdle

\* The call's outcome becomes the state.  A call that changes no document
\* is a stuttering step.
ApplyAgency(o) ==
    /\ <<o.agencies, o.users>> # <<agencies, users>>
    /\ agencies' = o.agencies
    /\ users' = o.users
    /\ UNCHANGED resourceVars

Create(u, c) ==
    /\ AgencyIds \ Stored # {}
    /\ ApplyAgency(RouteAgenciesCreate([cnpj |-> c], GenerateToken(u)))
    /\ registered' = registered \cup {c}
    /\ UNCHANGED pending

Update(u, id, c) ==
    /\ ApplyAgency(AgenciesUpdate(id, [cnpj |-> c], GenerateToken(u)))
    /\ UNCHANGED <<pending, registered>>

AddMember(u, id, target) ==
    /\ ApplyAgency(AgenciesAddMember(id, target, GenerateToken(u)))
    /\ UNCHANGED <<pending, registered>>

RemoveMember(u, id, target) ==
    /\ ApplyAgency(AgenciesRemoveMember(id, target, GenerateToken(u)))
    /\ UNCHANGED <<pending, registered>>

Remove(u, id) ==
    /\ ApplyAgency(RouteAgenciesRemove(id, GenerateToken(u)))
    /\ UNCHANGED <<pending, registered>>

NextAgency ==
    \/ \E u \in Users, c \in Cnpjs : Create(u, c)
    \/ \E u \in Users, id \in AgencyIds, c \in Cnpjs \cup {None} : Update(u, id, c)
    \/ \E u \in Users, id \in AgencyIds, t \in Users : AddMember(u, id, t)
    \/ \E u \in Users, id \in AgencyIds, t \in Users : RemoveMember(u, id, t)
    \/ \E u \in Users, id \in AgencyIds : Remove(u, id)

SpecAgency == Init /\ [][NextAgency]_vars

(***************************************************************************)
(* create, one store call at a time: calls of different users interleave   *)
(***************************************************************************)
\* POST /agencies, up to the answer of findOne.
CreateBegin(u, c) ==
    /\ pending[u] = NoCall
    /\ RbacMiddleware({ADMIN, MANAGER}, GenerateToken(u))
    /\ CreateFindOne([cnpj |-> c], GenerateToken(u)) = "proceed"
    /\ pending' = [pending EXCEPT ![u] = [pc |-> "save", cnpj |-> c, id |-> None]]
    /\ UNCHANGED <<users, agencies, registered>>
    /\ UNCHANGED resourceVars

CreateSaveStep(u) ==
    /\ pending[u].pc = "save"
    /\ AgencyIds \ Stored # {}
    /\ LET o == CreateSave(pending[u].cnpj, u) IN
         /\ agencies' = o.agencies
         /\ pending' = [pending EXCEPT ![u] =
                          IF o.result = "ok"
                          THEN [pc |-> "bind", cnpj |-> pending[u].cnpj, id |-> FreshAgencyId]
                          ELSE NoCall]
    /\ UNCHANGED <<users, registered>>
    /\ UNCHANGED resourceVars

CreateBindStep(u) ==
    /\ pending[u].pc = "bind"
    /\ users' = CreateBindOwner(pending[u].id, u).users
    /\ registered' = registered \cup {pending[u].cnpj}
    /\ pending' = [pending EXCEPT ![u] = NoCall]
    /\ UNCHANGED agencies
    /\ UNCHANGED resourceVars

NextCreate ==
    \/ \E u \in Users, c \in Cnpjs : CreateBegin(u, c)
    \/ \E u \in Users : CreateSaveStep(u)
    \/ \E u \in Users : CreateBindStep(u)
    \/ \E u \in Users, id \in AgencyIds, c \in Cnpjs \cup {None} : Update(u, id, c)
    \/ \E u \in Users, id \in AgencyIds : Remove(u, id)

SpecCreate == Init /\ [][NextCreate]_vars

(***************************************************************************)
(* Requests on properties, contacts and campaigns                          *)
(***************************************************************************)
\* Documents created, property reads counted, interactions logged and session
\* messages stored, all together: the stores and their counters grow without
\* limit in the code.
MaxGrowth == 2

\* Every token payload the module can have issued: a user's agencyId is
\* unset at registration and is set to any agency by create or addMember.
Actors == {AuthenticatedUser(u, RoleOf[u], a) : u \in UserIds, a \in AgencyIds \cup {None}}

ResOut(r, p, c, m) == [result |-> r, properties |-> p, contacts |-> c, campaigns |-> m]
ResFail(r) == ResOut(r, properties, contacts, campaigns)
ListOut(r, ids) == [result |-> r, ids |-> ids]

(***************************************************************************)
(* properties.service.ts                                                   *)
(***************************************************************************)
PropertiesCreate(dto, user) ==
    IF user.role # ADMIN /\ user.agencyId # dto.agency THEN ResFail("Forbidden")
    ELSE ResOut("ok",
                Append(properties,
                       [agency |-> dto.agency,
                        isActive |-> IF "isActive" \in DOMAIN dto THEN dto.isActive ELSE TRUE,
                        views |-> 0]),
                contacts, campaigns)

\* A listing in which the caller's agency filter, when given, replaces the
\* role's scoping.
MutFindAllByAgencyFilter(user, filters) ==
    IF user.role # ADMIN /\ user.agencyId = None THEN ListOut("Forbidden", {})
    ELSE LET agency == IF filters.agency # None THEN filters.agency
                       ELSE IF user.role = ADMIN THEN None ELSE user.agencyId
         IN ListOut("ok", {i \in DOMAIN properties :
                             /\ properties[i].isActive
                             /\ agency # None => properties[i].agency = agency})

PropertiesFindAll(user, filters) ==
    IF user.role = ADMIN
    THEN ListOut("ok", {i \in DOMAIN properties :
                          /\ properties[i].isActive
                          /\ filters.agency # None => properties[i].agency = filters.agency})
    ELSE IF user.agencyId = None THEN ListOut("Forbidden", {})
    ELSE ListOut("ok", {i \in DOMAIN properties :
                          /\ properties[i].isActive
                          /\ properties[i].agency = user.agencyId})

PropertiesFindOne(id, user) ==
    IF id \notin DOMAIN properties THEN ResFail("NotFound")
    ELSE IF user.role # ADMIN /\ properties[id].agency # user.agencyId
    THEN ResFail("Forbidden")
    ELSE ResOut("ok", [properties EXCEPT ![id].views = @ + 1], contacts, campaigns)

PropertiesUpdate(id, dto, user) ==
    IF id \notin DOMAIN properties THEN ResFail("NotFound")
    ELSE IF user.role # ADMIN
            /\ (user.role # MANAGER \/ properties[id].agency # user.agencyId)
    THEN ResFail("Forbidden")
    ELSE ResOut("ok",
                [properties EXCEPT ![id].isActive =
                    IF "isActive" \in DOMAIN dto THEN dto.isActive ELSE @],
                contacts, campaigns)

PropertiesRemove(id, user) ==
    IF id \notin DOMAIN properties THEN ResFail("NotFound")
    ELSE IF user.role # ADMIN
            /\ (user.role # MANAGER \/ properties[id].agency # user.agencyId)
    THEN ResFail("Forbidden")
    ELSE ResOut("ok", [properties EXCEPT ![id].isActive = FALSE], contacts, campaigns)

(***************************************************************************)
(* contacts.service.ts                                                     *)
(***************************************************************************)
ContactsCreate(dto, user) ==
    LET agencyId == IF dto.agency # None THEN dto.agency ELSE user.agencyId
    IN IF agencyId = None /\ user.role # ADMIN THEN ResFail("BadRequest")
       ELSE ResOut("ok", properties,
                   Append(contacts,
                          [agency |-> agencyId, assignedTo |-> dto.assignedTo,
                           isActive |-> TRUE, interactions |-> 0]),
                   campaigns)

\* The query is built field by field: the caller's assignedTo filter is
\* written after the role's scoping and replaces it.
ContactsFindAll(user, filters) ==
    IF user.role # ADMIN /\ user.agencyId = None THEN ListOut("Forbidden", {})
    ELSE LET agency == IF user.role = ADMIN THEN filters.agency ELSE user.agencyId
             scoped == IF user.role = AGENT THEN user.userId ELSE None
             assignedTo == IF filters.assignedTo # None THEN filters.assignedTo ELSE scoped
         IN ListOut("ok", {i \in DOMAIN contacts :
                             /\ contacts[i].isActive
                             /\ agency # None => contacts[i].agency = agency
                             /\ assignedTo # None => contacts[i].assignedTo = assignedTo})

ContactsFindOne(id, user) ==
    IF id \notin DOMAIN contacts THEN ResFail("NotFound")
    ELSE IF user.role = ADMIN THEN ResFail("ok")
    ELSE IF contacts[id].agency # None /\ contacts[id].agency # user.agencyId
    THEN ResFail("Forbidden")
    ELSE IF user.role = AGENT /\ contacts[id].assignedTo # user.userId
    THEN ResFail("Forbidden")
    ELSE ResFail("ok")

ContactsUpdate(id, dto, user) ==
    IF id \notin DOMAIN contacts THEN ResFail("NotFound")
    ELSE IF \/ /\ user.role = MANAGER
               /\ contacts[id].agency # None
               /\ contacts[id].agency # user.agencyId
            \/ /\ user.role = AGENT
               /\ contacts[id].assignedTo # user.userId
            \/ user.role \notin {ADMIN, MANAGER, AGENT}
    THEN ResFail("Forbidden")
    ELSE ResOut("ok", properties,
                [contacts EXCEPT ![id].assignedTo =
                    IF dto.assignedTo # None THEN dto.assignedTo ELSE @],
                campaigns)

ContactsAddInteraction(id, dto, user) ==
    IF ContactsFindOne(id, user).result # "ok" THEN ContactsFindOne(id, user)
    ELSE ResOut("ok", properties,
                [contacts EXCEPT ![id].interactions = @ + 1],
                campaigns)

\* sendOk: whether the messaging bridge delivered or threw.
ContactsSendWhatsappMessage(id, sendOk, user) ==
    IF ContactsFindOne(id, user).result # "ok" THEN ContactsFindOne(id, user)
    ELSE IF ~sendOk THEN ResFail("BridgeError")
    ELSE ContactsAddInteraction(id, [type |-> "whatsapp"], user)

ContactsRemove(id, user) ==
    IF id \notin DOMAIN contacts THEN ResFail("NotFound")
    ELSE IF user.role # ADMIN
            /\ (\/ user.role # MANAGER
                \/ (contacts[id].agency # None /\ contacts[id].agency # user.agencyId))
    THEN ResFail("Forbidden")
    ELSE ResOut("ok", properties, [contacts EXCEPT ![id].isActive = FALSE], campaigns)

(***************************************************************************)
(* campaigns.service.ts                                                    *)
(***************************************************************************)
\* rateLimitMs of a campaign created without one (the schema's default).
DefaultRateLimitMs == 1000

\* calculateAudienceCount with no status or tag filter.
CalculateAudienceCount(agencyId) ==
    Cardinality({i \in DOMAIN contacts :
                    contacts[i].isActive /\ contacts[i].agency = agencyId})

\* ...dto: audience.specificContacts is stored as the request gave it, and
\* then calculateAudienceCount returns the list's length (these fields go
\* before the ones of a campaign without the list).
Specific(dto) ==
    IF "specificContacts" \in DOMAIN dto /\ dto.specificContacts # {}
    THEN [specificContacts |-> dto.specificContacts,
          totalContacts |-> Cardinality(dto.specificContacts)]
    ELSE <<>>

\* create, up to the saved document.  With schedule.sendImmediately the
\* handler also schedules an execute by the same user, which runs after the
\* response as a call of its own.
CampaignsCreate(dto, user) ==
    IF user.role # ADMIN /\ user.agencyId # dto.agency THEN ResFail("Forbidden")
    ELSE ResOut("ok", properties, contacts,
                Append(campaigns,
                       Specific(dto) @@
                       [agency |-> dto.agency,
                        status |-> IF dto.schedule # None THEN "scheduled" ELSE "draft",
                        isActive |-> TRUE,
                        rateLimitMs |-> IF "rateLimitMs" \in DOMAIN dto
                                        THEN dto.rateLimitMs ELSE DefaultRateLimitMs,
                        totalContacts |-> CalculateAudienceCount(dto.agency),
                        sent |-> 0,
                        failed |-> 0]))

CampaignsFindAll(user, filters) ==
    IF user.role = ADMIN
    THEN ListOut("ok", {i \in DOMAIN campaigns :
                          /\ campaigns[i].isActive
                          /\ filters.agency # None => campaigns[i].agency = filters.agency})
    ELSE IF user.agencyId = None THEN ListOut("Forbidden", {})
    ELSE ListOut("ok", {i \in DOMAIN campaigns :
                          /\ campaigns[i].isActive
                          /\ campaigns[i].agency = user.agencyId})

CampaignsFindOne(id, user) ==
    IF id \notin DOMAIN campaigns THEN ResFail("NotFound")
    ELSE IF user.role # ADMIN /\ campaigns[id].agency # user.agencyId
    THEN ResFail("Forbidden")
    ELSE ResFail("ok")

CampaignsUpdate(id, dto, user) ==
    IF id \notin DOMAIN campaigns THEN ResFail("NotFound")
    ELSE IF user.role # ADMIN
            /\ (user.role # MANAGER \/ campaigns[id].agency # user.agencyId)
    THEN ResFail("Forbidden")
    ELSE IF campaigns[id].status = "running" THEN ResFail("BadRequest")
    ELSE ResOut("ok", properties, contacts,
                [campaigns EXCEPT ![id].status =
                    IF dto.status # None THEN dto.status ELSE @])

\* getAudienceContacts: the active contacts among audience.specificContacts
\* when the campaign has any; otherwise, with no status or tag filter, the
\* agency's active contacts.
AudienceContacts(id) ==
    IF "specificContacts" \in DOMAIN campaigns[id]
    THEN {i \in DOMAIN contacts :
             i \in campaigns[id].specificContacts /\ contacts[i].isActive}
    ELSE {i \in DOMAIN contacts :
             contacts[i].isActive /\ contacts[i].agency = campaigns[id].agency}

\* The ways the sends of one execution can go: per audience position,
\* whether the messaging bridge delivered (TRUE) or threw (FALSE).
Outcomes(id) ==
    IF id \in DOMAIN campaigns
    THEN [1 .. Cardinality(AudienceContacts(id)) -> BOOLEAN]
    ELSE {<<>>}

Count(outcomes, b) == Cardinality({i \in DOMAIN outcomes : outcomes[i] = b})

\* execute, from the request to the end of the send loop, with no other
\* request in between.
CampaignsExecute(id, outcomes, user) ==
    IF id \notin DOMAIN campaigns THEN ResFail("NotFound")
    ELSE IF user.role # ADMIN /\ campaigns[id].agency # user.agencyId
    THEN ResFail("Forbidden")
    ELSE IF campaigns[id].status \in {"running", "completed"} THEN ResFail("BadRequest")
    ELSE IF AudienceContacts(id) = {}
    THEN ResOut("BadRequest", properties, contacts,
                [campaigns EXCEPT ![id].status = "completed"])
    ELSE ResOut("ok", properties, contacts,
                [campaigns EXCEPT ![id].status = "completed",
                                  ![id].sent = Count(outcomes, TRUE),
                                  ![id].failed = Count(outcomes, FALSE)])

CampaignsRemove(id, user) ==
    IF id \notin DOMAIN campaigns THEN ResFail("NotFound")
    ELSE IF user.role # ADMIN
            /\ (user.role # MANAGER \/ campaigns[id].agency # user.agencyId)
    THEN ResFail("Forbidden")
    ELSE IF campaigns[id].status = "running" THEN ResFail("BadRequest")
    ELSE ResOut("ok", properties, contacts,
                [campaigns EXCEPT ![id].isActive = FALSE])

(***************************************************************************)
(* agents.service.ts: the request handlers (the agent's run is scheduled   *)
(* by the handler and is not part of it)                                   *)
(***************************************************************************)
SessOut(r, ss) == [result |-> r, sessions |-> ss]

\* Transcript entries: the role, metadata.toolName, and what the content is.
UserEntry(content) == [role |-> "user", toolName |-> None, content |-> content]
AssistantEntry == [role |-> "assistant", toolName |-> None, content |-> "answer"]
StubEntry == [role |-> "assistant", toolName |-> None, content |-> "demo"]
ToolEntry(result) == [role |-> "assistant", toolName |-> "tool", content |-> result]

\* The session executeGoal stores: the paths of AgentSessionSchema.
NewSession(dto, user) ==
    [userId |-> user.userId, agencyId |-> user.agencyId, messageCount |-> 1,
     messages |-> <<UserEntry(dto.goal)>>, agentStatus |-> "idle", status |-> "active"]

ExecuteGoal(dto, user) ==
    IF user.agencyId = None THEN SessOut("Forbidden", sessions)
    ELSE SessOut("ok", Append(sessions, NewSession(dto, user)))

FindSession(sessionId, user) ==
    IF sessionId \notin DOMAIN sessions THEN SessOut("NotFound", sessions)
    ELSE IF /\ sessions[sessionId].userId # user.userId
            /\ sessions[sessionId].agencyId # user.agencyId
    THEN SessOut("Forbidden", sessions)
    ELSE SessOut("ok", sessions)

\* find({$or: [{userId}, {agencyId}]}): the sessions the user created and
\* those of the user's agency.
FindSessions(user) ==
    ListOut("ok", {sid \in DOMAIN sessions :
                     \/ sessions[sid].userId = user.userId
                     \/ user.agencyId # None /\ sessions[sid].agencyId = user.agencyId})

Chat(dto, user) ==
    IF FindSession(dto.sessionId, user).result # "ok" THEN FindSession(dto.sessionId, user)
    ELSE SessOut("ok", [sessions EXCEPT
                           ![dto.sessionId].messages = Append(@, UserEntry(dto.message)),
                           ![dto.sessionId].agentStatus = "thinking",
                           ![dto.sessionId].messageCount =
                               Len(sessions[dto.sessionId].messages) + 1])

(***************************************************************************)
(* Routes: the role guard of each route, then the service                  *)
(***************************************************************************)
Guarded(allowedRoles, user, o) ==
    IF RbacMiddleware(allowedRoles, user) THEN o ELSE ResFail("Forbidden")

RoutePropertiesCreate(dto, user) == Guarded({ADMIN, MANAGER}, user, PropertiesCreate(dto, user))
RoutePropertiesUpdate(id, dto, user) == Guarded({ADMIN, MANAGER}, user, PropertiesUpdate(id, dto, user))
RoutePropertiesRemove(id, user) == Guarded({ADMIN, MANAGER}, user, PropertiesRemove(id, user))

RouteContactsCreate(dto, user) == Guarded({ADMIN, MANAGER, AGENT}, user, ContactsCreate(dto, user))
RouteContactsUpdate(id, dto, user) == Guarded({ADMIN, MANAGER, AGENT}, user, ContactsUpdate(id, dto, user))
RouteContactsRemove(id, user) == Guarded({ADMIN, MANAGER}, user, ContactsRemove(id, user))
\* The interactions route with no role guard in front of the service.
MutAddInteractionUnguarded(id, dto, user) == ContactsAddInteraction(id, dto, user)

RouteContactsAddInteraction(id, dto, user) ==
    Guarded({ADMIN, MANAGER, AGENT}, user, ContactsAddInteraction(id, dto, user))
RouteContactsSendWhatsapp(id, sendOk, user) ==
    Guarded({ADMIN, MANAGER, AGENT}, user, ContactsSendWhatsappMessage(id, sendOk, user))

RouteCampaignsCreate(dto, user) == Guarded({ADMIN, MANAGER}, user, CampaignsCreate(dto, user))
RouteCampaignsUpdate(id, dto, user) == Guarded({ADMIN, MANAGER}, user, CampaignsUpdate(id, dto, user))
RouteCampaignsExecute(id, outcomes, user) ==
    Guarded({ADMIN, MANAGER}, user, CampaignsExecute(id, outcomes, user))
RouteCampaignsRemove(id, user) == Guarded({ADMIN, MANAGER}, user, CampaignsRemove(id, user))

(***************************************************************************)
(* Actions on properties, contacts and campaigns                           *)
(***************************************************************************)
Assignees == {"agt1", "agt2"}
RECURSIVE Total(_, _)
Total(counts, n) == IF n = 0 THEN 0 ELSE counts[n] + Total(counts, n - 1)

Growth ==
    Len(properties) + Len(contacts) + Len(campaigns)
    + Total([i \in DOMAIN properties |-> properties[i].views], Len(properties))
    + Total([i \in DOMAIN contacts |-> contacts[i].interactions], Len(contacts))
    + Total([i \in DOMAIN sessions |-> sessions[i].messageCount], Len(sessions))

ApplyRes(o) ==
    /\ <<o.properties, o.contacts, o.campaigns>> # <<properties, contacts, campaigns>>
    /\ properties' = o.properties
    /\ contacts' = o.contacts
    /\ campaigns' = o.campaigns
    /\ UNCHANGED <<agencyVars, sessions, calls>>

PropertyCreate(user) ==
    /\ Growth < MaxGrowth
    /\ \E dto \in [agency : AgencyIds] \cup [agency : AgencyIds, isActive : BOOLEAN] :
          ApplyRes(RoutePropertiesCreate(dto, user))

PropertyFindOne(user) ==
    \E id \in DOMAIN properties :
        /\ Growth < MaxGrowth
        /\ ApplyRes(PropertiesFindOne(id, user))

PropertyUpdate(user) ==
    \E id \in DOMAIN properties, dto \in [isActive : BOOLEAN] :
        ApplyRes(RoutePropertiesUpdate(id, dto, user))

PropertyRemove(user) ==
    \E id \in DOMAIN properties : ApplyRes(RoutePropertiesRemove(id, user))

ContactCreate(user) ==
    /\ Growth < MaxGrowth
    /\ \E a \in AgencyIds \cup {None}, t \in Assignees \cup {None} :
          ApplyRes(RouteContactsCreate([agency |-> a, assignedTo |-> t], user))

ContactUpdate(user) ==
    \E id \in DOMAIN contacts, t \in Assignees \cup {None} :
        ApplyRes(RouteContactsUpdate(id, [assignedTo |-> t], user))

ContactAddInteraction(user) ==
    \E id \in DOMAIN contacts :
        /\ Growth < MaxGrowth
        /\ ApplyRes(RouteContactsAddInteraction(id, [type |-> "call"], user))

ContactSendWhatsapp(user) ==
    \E id \in DOMAIN contacts, sendOk \in BOOLEAN :
        /\ Growth < MaxGrowth
        /\ ApplyRes(RouteContactsSendWhatsapp(id, sendOk, user))

ContactRemove(user) ==
    \E id \in DOMAIN contacts : ApplyRes(RouteContactsRemove(id, user))

CampaignDtos == [agency : AgencyIds, schedule : {None}]

CampaignCreate(user) ==
    /\ Growth < MaxGrowth
    /\ \E dto \in CampaignDtos : ApplyRes(RouteCampaignsCreate(dto, user))

CampaignUpdate(user) ==
    \E id \in DOMAIN campaigns, st \in {"paused"} :
        ApplyRes(RouteCampaignsUpdate(id, [status |-> st], user))

CampaignExecute(user) ==
    \E id \in DOMAIN campaigns : \E outcomes \in Outcomes(id) :
        ApplyRes(RouteCampaignsExecute(id, outcomes, user))

CampaignRemove(user) ==
    \E id \in DOMAIN campaigns : ApplyRes(RouteCampaignsRemove(id, user))

Next ==
    \/ \E user \in Actors : PropertyCreate(user)
    \/ \E user \in Actors : PropertyFindOne(user)
    \/ \E user \in Actors : PropertyUpdate(user)
    \/ \E user \in Actors : PropertyRemove(user)
    \/ \E user \in Actors : ContactCreate(user)
    \/ \E user \in Actors : ContactUpdate(user)
    \/ \E user \in Actors : ContactAddInteraction(user)
    \/ \E user \in Actors : ContactSendWhatsapp(user)
    \/ \E user \in Actors : ContactRemove(user)
    \/ \E user \in Actors : CampaignCreate(user)
    \/ \E user \in Actors : CampaignUpdate(user)
    \/ \E user \in Actors : CampaignExecute(user)
    \/ \E user \in Actors : CampaignRemove(user)

Spec == Init /\ [][Next]_vars

(***************************************************************************)
(* Agent sessions: execute-goal and chat requests                          *)
(***************************************************************************)
Goals == {"goal"}

ApplySess(o) ==
    /\ o.sessions # sessions
    /\ sessions' = o.sessions
    /\ UNCHANGED <<agencyVars, properties, contacts, campaigns, calls>>

AgentExecuteGoal(user) ==
    /\ Growth < MaxGrowth
    /\ \E g \in Goals : ApplySess(ExecuteGoal([goal |-> g], user))

AgentChat(user) ==
    /\ Growth < MaxGrowth
    /\ \E sid \in DOMAIN sessions :
          ApplySess(Chat([sessionId |-> sid, message |-> "message"], user))

NextAgents ==
    \/ \E user \in Actors : AgentExecuteGoal(user)
    \/ \E user \in Actors : AgentChat(user)

SpecAgents == Init /\ [][NextAgents]_vars

(***************************************************************************)
(* Campaign execution, one store call, delay or send at a time             *)
(* (campaigns.service.ts execute), alone and interleaved with update and   *)
(* remove                                                                  *)
(***************************************************************************)
MaxAudience == 3   \* contacts stored when an execution starts

CampaignStatuses == {"draft", "scheduled", "running", "paused", "completed", "cancelled"}

\* ContactModel.find(query) with no sort: the documents in stored order.
RECURSIVE InOrder(_, _)
InOrder(ids, from) ==
    IF from > Len(contacts) THEN <<>>
    ELSE IF from \in ids THEN <<from>> \o InOrder(ids, from + 1)
    ELSE InOrder(ids, from + 1)

\* A status validation that rejects a running campaign only.
MutCheckRunningOnly(id, user) ==
    IF ~RbacMiddleware({ADMIN, MANAGER}, user) THEN "Forbidden"
    ELSE IF id \notin DOMAIN campaigns THEN "NotFound"
    ELSE IF user.role # ADMIN /\ campaigns[id].agency # user.agencyId THEN "Forbidden"
    ELSE IF campaigns[id].status = "running" THEN "BadRequest"
    ELSE "proceed"

\* execute, up to the status validation: what the request is answered, or
\* "proceed".
ExecuteCheck(id, user) ==
    IF ~RbacMiddleware({ADMIN, MANAGER}, user) THEN "Forbidden"
    ELSE IF id \notin DOMAIN campaigns THEN "NotFound"
    ELSE IF user.role # ADMIN /\ campaigns[id].agency # user.agencyId THEN "Forbidden"
    ELSE IF campaigns[id].status \in {"running", "completed"} THEN "BadRequest"
    ELSE "proceed"

\* update and remove, up to the running check.
WriteCheck(id, user) ==
    IF ~RbacMiddleware({ADMIN, MANAGER}, user) THEN "Forbidden"
    ELSE IF id \notin DOMAIN campaigns THEN "NotFound"
    ELSE IF user.role # ADMIN
            /\ (user.role # MANAGER \/ campaigns[id].agency # user.agencyId)
    THEN "Forbidden"
    ELSE IF campaigns[id].status = "running" THEN "BadRequest"
    ELSE "proceed"

\* The users whose requests are followed step by step.
Requesters ==
    {AuthenticatedUser("adm", ADMIN, None), AuthenticatedUser("mgr1", MANAGER, "A1"),
     AuthenticatedUser("mgr1", MANAGER, "A2"), AuthenticatedUser("vwr1", VIEWER, "A1")}

StepUnchanged == UNCHANGED <<agencyVars, properties, contacts, sessions>>

\* An execution that has read its campaign and passed the checks; background
\* tells the one create started with setImmediate from the one of a request.
StartedExecution(id, background) ==
    [pc |-> "save", id |-> id, background |-> background,
     rateLimitMs |-> campaigns[id].rateLimitMs,
     read |-> [sent |-> campaigns[id].sent, failed |-> campaigns[id].failed],
     audience |-> <<>>, attempts |-> <<>>, delayed |-> FALSE,
     sent |-> 0, failed |-> 0, delays |-> 0, result |-> None]

\* findById and the checks passed: the request holds the document it read.
ExecuteReadAt(x, user) ==
    \E id \in DOMAIN campaigns :
        /\ calls[x].pc \in {"idle", "done"}
        /\ ExecuteCheck(id, user) = "proceed"
        /\ calls' = [calls EXCEPT ![x] = StartedExecution(id, FALSE)]
        /\ UNCHANGED campaigns
        /\ StepUnchanged

ExecuteRead(user) == ExecuteReadAt("execute", user)

\* The execution create scheduled with setImmediate (sendImmediately), for
\* the user who created the campaign: an exception of it goes to the catch
\* that logs it.
ExecuteImmediatelyAt(x, user) ==
    /\ calls[x].pc = "scheduled"
    /\ ExecuteCheck(calls[x].id, user) = "proceed"
    /\ calls' = [calls EXCEPT ![x] = StartedExecution(calls[x].id, TRUE)]
    /\ UNCHANGED campaigns
    /\ StepUnchanged

ExecuteImmediately(user) == ExecuteImmediatelyAt("execute", user)

\* campaign.status = RUNNING; campaign.save()
ExecuteSaveRunningAt(x) ==
    /\ calls[x].pc = "save"
    /\ campaigns' = [campaigns EXCEPT ![calls[x].id].status = "running"]
    /\ calls' = [calls EXCEPT ![x].pc = "resolve"]
    /\ StepUnchanged

ExecuteSaveRunning == ExecuteSaveRunningAt("execute")

\* getAudienceContacts(campaign)
ExecuteResolveAt(x) ==
    /\ calls[x].pc = "resolve"
    /\ LET audience == InOrder(AudienceContacts(calls[x].id), 1)
       IN calls' = [calls EXCEPT ![x].audience = audience,
                                 ![x].pc =
                                     IF audience = <<>> THEN "empty" ELSE "loop"]
    /\ UNCHANGED campaigns
    /\ StepUnchanged

ExecuteResolve == ExecuteResolveAt("execute")

\* An empty audience answered BadRequest with the campaign left as it is.
MutEmptyLeavesRunning ==
    /\ calls["execute"].pc = "empty"
    /\ calls' = [calls EXCEPT !["execute"].pc = "done",
                              !["execute"].result = "BadRequest"]
    /\ UNCHANGED campaigns
    /\ StepUnchanged

\* No contact: campaign.status = COMPLETED; campaign.save(); throw BadRequest.
ExecuteSaveEmptyAt(x) ==
    /\ calls[x].pc = "empty"
    /\ campaigns' = [campaigns EXCEPT ![calls[x].id].status = "completed"]
    /\ calls' = [calls EXCEPT ![x].pc = "done",
                              ![x].result = "BadRequest"]
    /\ StepUnchanged

ExecuteSaveEmpty == ExecuteSaveEmptyAt("execute")

\* A rate limit that waits between sends only: not before the first.
MutDelayAfterFirst(c) == c.rateLimitMs > 0 /\ ~c.delayed /\ c.attempts # <<>>

\* if (campaign.rateLimitMs && campaign.rateLimitMs > 0), for a loop body
\* that has not waited yet.
DelayDue(c) == c.rateLimitMs > 0 /\ ~c.delayed

\* The rate limit's setTimeout, at the top of the loop body.
ExecuteDelayAt(x) ==
    /\ calls[x].pc = "loop"
    /\ DelayDue(calls[x])
    /\ calls' = [calls EXCEPT ![x].delayed = TRUE,
                              ![x].delays = @ + 1]
    /\ UNCHANGED campaigns
    /\ StepUnchanged

ExecuteDelay == ExecuteDelayAt("execute")

\* A send loop that a throwing send ends.
MutSendAbortsOnFailure ==
    /\ calls["execute"].pc = "loop"
    /\ ~DelayDue(calls["execute"])
    /\ \E delivered \in BOOLEAN :
          LET c == calls["execute"]
              next == Len(c.attempts) + 1
          IN calls' = [calls EXCEPT !["execute"] =
                          [c EXCEPT !.attempts = Append(@, c.audience[next]),
                                    !.sent = IF delivered THEN @ + 1 ELSE @,
                                    !.failed = IF delivered THEN @ ELSE @ + 1,
                                    !.delayed = FALSE,
                                    !.pc = IF next = Len(c.audience) \/ ~delivered
                                           THEN "finish" ELSE "loop"]]
    /\ UNCHANGED campaigns
    /\ StepUnchanged

\* sendTextMessage to the next contact: it delivers, or it throws and the
\* loop's catch counts the failure.
ExecuteSendAt(x) ==
    /\ calls[x].pc = "loop"
    /\ ~DelayDue(calls[x])
    /\ \E delivered \in BOOLEAN :
          LET c == calls[x]
              next == Len(c.attempts) + 1
          IN calls' = [calls EXCEPT ![x] =
                          [c EXCEPT !.attempts = Append(@, c.audience[next]),
                                    !.sent = IF delivered THEN @ + 1 ELSE @,
                                    !.failed = IF delivered THEN @ ELSE @ + 1,
                                    !.delayed = FALSE,
                                    !.pc = IF next = Len(c.audience)
                                           THEN "finish" ELSE "loop"]]
    /\ UNCHANGED campaigns
    /\ StepUnchanged

ExecuteSend == ExecuteSendAt("execute")

\* A final save that writes the sent count and the status only.
MutFinishDropsFailed ==
    /\ calls["execute"].pc = "finish"
    /\ campaigns' = [campaigns EXCEPT ![calls["execute"].id].sent = calls["execute"].sent,
                                      ![calls["execute"].id].status = "completed"]
    /\ calls' = [calls EXCEPT !["execute"].pc = "done", !["execute"].result = "ok"]
    /\ StepUnchanged

\* statistics.sent, statistics.failed, status = COMPLETED; campaign.save():
\* save() writes the paths whose value differs from the one the document
\* was loaded with.
ExecuteFinishAt(x) ==
    /\ calls[x].pc = "finish"
    /\ LET c == calls[x]
       IN campaigns' = [campaigns EXCEPT
              ![c.id].sent = IF c.sent # c.read.sent THEN c.sent ELSE @,
              ![c.id].failed = IF c.failed # c.read.failed THEN c.failed ELSE @,
              ![c.id].status = "completed"]
    /\ calls' = [calls EXCEPT ![x].pc = "done", ![x].result = "ok"]
    /\ StepUnchanged

ExecuteFinish == ExecuteFinishAt("execute")

\* The documents an execution can find: contacts of both agencies, active or
\* soft-deleted, and one campaign of agency A1 as create stores it, created
\* before or after the contacts were.
AudienceDocs ==
    [agency : AgencyIds, assignedTo : {None}, isActive : BOOLEAN, interactions : {0}]
    \ {[agency |-> "A2", assignedTo |-> None, isActive |-> FALSE, interactions |-> 0]}

StoredContacts(n) == UNION {[1 .. k -> AudienceDocs] : k \in 0 .. n}

InitExecute ==
    /\ InitAgency
    /\ properties = <<>>
    /\ sessions = <<>>
    /\ contacts \in StoredContacts(MaxAudience)
    /\ \E st \in {"draft", "scheduled"}, rl \in {0, DefaultRateLimitMs},
          total \in {0, CalculateAudienceCount("A1")} :
          /\ campaigns = <<[agency |-> "A1", status |-> st, isActive |-> TRUE,
                            rateLimitMs |-> rl, totalContacts |-> total,
                            sent |-> 0, failed |-> 0]>>
          /\ \E immediately \in {b \in BOOLEAN : b => st = "scheduled"} :
                calls = [slot \in Slots |->
                            IF slot = "execute" /\ immediately
                            THEN [pc |-> "scheduled", id |-> 1]
                            ELSE NoCall]

NextExecute ==
    \/ \E user \in Requesters : ExecuteRead(user)
    \/ \E user \in Requesters : ExecuteImmediately(user)
    \/ ExecuteSaveRunning
    \/ ExecuteResolve
    \/ ExecuteSaveEmpty
    \/ ExecuteDelay
    \/ ExecuteSend
    \/ ExecuteFinish

SpecExecute == InitExecute /\ [][NextExecute]_vars

(***************************************************************************)
(* update and remove, step by step, next to an execution                   *)
(*                                                                         *)
(* Each request reads the campaign with findById, validates the document   *)
(* it read, and writes with save() after an await; save() writes the paths *)
(* the request modified on its own copy. Requests are served concurrently, *)
(* so the steps of different requests interleave at every await.           *)
(***************************************************************************)

\* UpdateCampaignDto.status: absent, or any CampaignStatus.
UpdateStatuses == CampaignStatuses \cup {None}

\* update: findById and the checks passed.
UpdateRead(user) ==
    \E id \in DOMAIN campaigns, st \in UpdateStatuses :
        /\ calls["update"].pc \in {"idle", "done"}
        /\ WriteCheck(id, user) = "proceed"
        /\ calls' = [calls EXCEPT !["update"] =
                        [pc |-> "save", id |-> id, read |-> campaigns[id].status,
                         status |-> st, result |-> None]]
        /\ UNCHANGED campaigns
        /\ StepUnchanged

\* update: Object.assign(campaign, dto); campaign.save()
UpdateSave ==
    /\ calls["update"].pc = "save"
    /\ LET c == calls["update"]
       IN campaigns' = IF c.status # None /\ c.status # c.read
                       THEN [campaigns EXCEPT ![c.id].status = c.status]
                       ELSE campaigns
    /\ calls' = [calls EXCEPT !["update"].pc = "done", !["update"].result = "ok"]
    /\ StepUnchanged

\* remove: findById and the checks passed (on a campaign not yet removed: on
\* a removed one isActive is not modified and save() writes nothing).
RemoveRead(user) ==
    \E id \in DOMAIN campaigns :
        /\ calls["remove"].pc \in {"idle", "done"}
        /\ WriteCheck(id, user) = "proceed"
        /\ campaigns[id].isActive
        /\ calls' = [calls EXCEPT !["remove"] =
                        [pc |-> "save", id |-> id, result |-> None]]
        /\ UNCHANGED campaigns
        /\ StepUnchanged

\* remove: campaign.isActive = false; campaign.save()
RemoveSave ==
    /\ calls["remove"].pc = "save"
    /\ campaigns' = [campaigns EXCEPT ![calls["remove"].id].isActive = FALSE]
    /\ calls' = [calls EXCEPT !["remove"].pc = "done", !["remove"].result = "ok"]
    /\ StepUnchanged

\* One campaign as create leaves it, over at most one stored contact.
InitRace ==
    /\ InitAgency
    /\ properties = <<>>
    /\ sessions = <<>>
    /\ calls = [slot \in Slots |-> NoCall]
    /\ contacts \in StoredContacts(1)
    /\ \E st \in {"draft", "scheduled"}, rl \in {0, DefaultRateLimitMs} :
          campaigns = <<[agency |-> "A1", status |-> st, isActive |-> TRUE,
                         rateLimitMs |-> rl,
                         totalContacts |-> CalculateAudienceCount("A1"),
                         sent |-> 0, failed |-> 0]>>

NextRace ==
    \/ \E user \in Requesters : ExecuteRead(user)
    \/ ExecuteSaveRunning
    \/ ExecuteResolve
    \/ ExecuteSaveEmpty
    \/ ExecuteDelay
    \/ ExecuteSend
    \/ ExecuteFinish
    \/ \E user \in Requesters : UpdateRead(user)
    \/ UpdateSave
    \/ \E user \in Requesters : RemoveRead(user)
    \/ RemoveSave

SpecRace == InitRace /\ [][NextRace]_vars

(***************************************************************************)
(* Two executions of one campaign                                          *)
(*                                                                         *)
(* Each execute call reads the campaign with findById, validates the       *)
(* status of the document it read, and only then saves status running,     *)
(* after an await. The calls are the one create scheduled with             *)
(* setImmediate and the ones of POST /campaigns/:id/execute requests; they *)
(* are served concurrently and their steps interleave at every await.      *)
(***************************************************************************)

\* The slots of calls that hold an execution.
ExecuteSlots == {"execute", "execute2"}

\* One campaign as create leaves it, over at most two stored contacts, its
\* immediate execution scheduled or not.
InitTwice ==
    /\ InitAgency
    /\ properties = <<>>
    /\ sessions = <<>>
    /\ contacts \in StoredContacts(2)
    /\ \E st \in {"draft", "scheduled"}, rl \in {0, DefaultRateLimitMs} :
          /\ campaigns = <<[agency |-> "A1", status |-> st, isActive |-> TRUE,
                            rateLimitMs |-> rl,
                            totalContacts |-> CalculateAudienceCount("A1"),
                            sent |-> 0, failed |-> 0]>>
          /\ \E immediately \in {b \in BOOLEAN : b => st = "scheduled"} :
                calls = [slot \in Slots |->
                            IF slot = "execute" /\ immediately
                            THEN [pc |-> "scheduled", id |-> 1]
                            ELSE NoCall]

NextTwice ==
    \/ \E x \in ExecuteSlots, user \in Requesters : ExecuteReadAt(x, user)
    \/ \E x \in ExecuteSlots, user \in Requesters : ExecuteImmediatelyAt(x, user)
    \/ \E x \in ExecuteSlots : ExecuteSaveRunningAt(x)
    \/ \E x \in ExecuteSlots : ExecuteResolveAt(x)
    \/ \E x \in ExecuteSlots : ExecuteSaveEmptyAt(x)
    \/ \E x \in ExecuteSlots : ExecuteDelayAt(x)
    \/ \E x \in ExecuteSlots : ExecuteSendAt(x)
    \/ \E x \in ExecuteSlots : ExecuteFinishAt(x)

SpecTwice == InitTwice /\ [][NextTwice]_vars

(***************************************************************************)
(* A campaign created with an explicit audience, and its execution         *)
(***************************************************************************)

\* CreateCampaignDto: the agency, schedule.sendImmediately or no schedule,
\* the rate limit, and audience.specificContacts: any ids, stored or not.
AudienceDtos ==
    [agency : AgencyIds, schedule : {None, "sendImmediately"},
     rateLimitMs : {0, DefaultRateLimitMs}, specificContacts : SUBSET (1 .. 2)]

\* POST /campaigns: the campaign is stored and, with sendImmediately, its
\* execution scheduled.
AudienceCreate(user) ==
    /\ campaigns = <<>>
    /\ \E dto \in AudienceDtos :
          LET o == RouteCampaignsCreate(dto, user)
          IN /\ o.result = "ok"
             /\ campaigns' = o.campaigns
             /\ calls' = IF dto.schedule = "sendImmediately"
                         THEN [calls EXCEPT !["execute"] = [pc |-> "scheduled", id |-> 1]]
                         ELSE calls
    /\ StepUnchanged

\* The stored contacts of both agencies, and no campaign yet.
InitAudience ==
    /\ InitAgency
    /\ properties = <<>>
    /\ sessions = <<>>
    /\ campaigns = <<>>
    /\ contacts \in StoredContacts(2)
    /\ calls = [slot \in Slots |-> NoCall]

NextAudience ==
    \/ \E user \in Requesters : AudienceCreate(user)
    \/ \E user \in Requesters : ExecuteRead(user)
    \/ \E user \in Requesters : ExecuteImmediately(user)
    \/ ExecuteSaveRunning
    \/ ExecuteResolve
    \/ ExecuteSaveEmpty
    \/ ExecuteDelay
    \/ ExecuteSend
    \/ ExecuteFinish

SpecAudience == InitAudience /\ [][NextAudience]_vars

(***************************************************************************)
(* An execution whose store calls can fail                                 *)
(*                                                                         *)
(* execute awaits campaign.save() and getAudienceContacts() outside any    *)
(* try block: a rejected promise (the store unreachable, a write or a      *)
(* query refused) leaves execute at that await as an exception, with the   *)
(* document as the last successful save left it. Node resumes every        *)
(* pending await, so each started execution takes its next step.           *)
(***************************************************************************)

\* campaign.save() rejects: the exception leaves execute, nothing is written.
ExecuteSaveThrows ==
    /\ calls["execute"].pc \in {"save", "empty", "finish"}
    /\ calls' = [calls EXCEPT !["execute"].pc = "done",
                              !["execute"].result = "Error"]
    /\ UNCHANGED campaigns
    /\ StepUnchanged

\* getAudienceContacts rejects (ContactModel.find fails): the exception
\* leaves execute after status running was saved.
ExecuteResolveThrows ==
    /\ calls["execute"].pc = "resolve"
    /\ calls' = [calls EXCEPT !["execute"].pc = "done",
                              !["execute"].result = "Error"]
    /\ UNCHANGED campaigns
    /\ StepUnchanged

NextFailing ==
    \/ \E user \in Requesters : ExecuteRead(user)
    \/ \E user \in Requesters : ExecuteImmediately(user)
    \/ ExecuteSaveRunning
    \/ ExecuteResolve
    \/ ExecuteSaveEmpty
    \/ ExecuteDelay
    \/ ExecuteSend
    \/ ExecuteFinish
    \/ ExecuteSaveThrows
    \/ ExecuteResolveThrows

SpecFailing == InitExecute /\ [][NextFailing]_vars /\ WF_vars(NextFailing)

(***************************************************************************)
(* replaceVariables                                                        *)
(*                                                                         *)
(* A string is a sequence of tokens: a token is a whole placeholder, a     *)
(* piece of plain text, or the replacement pattern $&. String.replace with *)
(* a global regular expression scans its input once: what it inserts is    *)
(* not scanned again by the same call, and $& in the replacement string    *)
(* stands for the matched text.                                            *)
(***************************************************************************)
MaxTemplate == 2   \* tokens in a template

NamePlaceholder == "{{contact.name}}"
EmailPlaceholder == "{{contact.email}}"
PhonePlaceholder == "{{contact.phone}}"
ContactPlaceholders == {NamePlaceholder, EmailPlaceholder, PhonePlaceholder}
Matched == "$&"

\* The text that new RegExp(`{{${key}}}`, 'g') matches.
Placeholder(key) == "{{" \o key \o "}}"

\* The replacement string as inserted for a match of placeholder.
Inserted(value, placeholder) ==
    [i \in DOMAIN value |-> IF value[i] = Matched THEN placeholder ELSE value[i]]

\* message.replace(/placeholder/g, value)
RECURSIVE Replace(_, _, _)
Replace(message, placeholder, value) ==
    IF message = <<>> THEN <<>>
    ELSE (IF Head(message) = placeholder THEN Inserted(value, placeholder)
          ELSE <<Head(message)>>)
         \o Replace(Tail(message), placeholder, value)

\* for (const [key, value] of Object.entries(variables)) message = replace
RECURSIVE ReplaceGlobals(_, _)
ReplaceGlobals(message, entries) ==
    IF entries = <<>> THEN message
    ELSE ReplaceGlobals(Replace(message, Placeholder(Head(entries)[1]), Head(entries)[2]),
                        Tail(entries))

\* A field that is undefined, or the empty string: the same to ||.
Absent == <<>>

\* value || fallback
OrElse(value, fallback) == IF value = Absent THEN fallback ELSE value

\* A rendering that leaves the phone placeholder alone.
MutReplaceVariablesNoPhone(template, variables, contact) ==
    LET globals == ReplaceGlobals(template, variables)
        named == Replace(globals, NamePlaceholder, OrElse(contact.name, <<"Cliente">>))
    IN Replace(named, EmailPlaceholder, OrElse(contact.email, <<>>))

ReplaceVariables(template, variables, contact) ==
    LET globals == ReplaceGlobals(template, variables)
        named == Replace(globals, NamePlaceholder, OrElse(contact.name, <<"Cliente">>))
        mailed == Replace(named, EmailPlaceholder, OrElse(contact.email, <<>>))
    IN Replace(mailed, PhonePlaceholder, OrElse(contact.phone, <<>>))

TemplateTokens == ContactPlaceholders \cup {Placeholder("saudacao"), "Ola"}
Templates == UNION {[1 .. n -> TemplateTokens] : n \in 0 .. MaxTemplate}

\* campaign.message.variables: no entry, or one, keyed by a name of its own
\* or by the name of a contact placeholder.
VariableMaps ==
    {<<>>} \cup {<<<<key, value>>>> : key \in {"saudacao", "contact.name"},
                                      value \in {<<"Oi">>, <<NamePlaceholder>>}}

\* Contact fields as stored: free text, absent where the schema allows.
RenderContacts ==
    [name : {Absent, <<"Ana">>, <<NamePlaceholder>>, <<PhonePlaceholder>>, <<Matched>>},
     email : {Absent, <<"ana@x">>, <<NamePlaceholder>>},
     phone : {<<"5511">>, <<EmailPlaceholder>>}]

InitRender ==
    /\ InitAgency
    /\ properties = <<>>
    /\ contacts = <<>>
    /\ campaigns = <<>>
    /\ sessions = <<>>
    /\ \E template \in Templates, variables \in VariableMaps, contact \in RenderContacts :
          calls = [slot \in Slots |->
                      IF slot = "render"
                      THEN [pc |-> "call", template |-> template,
                            variables |-> variables, contact |-> contact,
                            message |-> <<>>]
                      ELSE NoCall]

\* const message = this.replaceVariables(template, variablesObj, contact)
Render ==
    /\ calls["render"].pc = "call"
    /\ calls' = [calls EXCEPT
                    !["render"].message =
                        ReplaceVariables(calls["render"].template,
                                         calls["render"].variables,
                                         calls["render"].contact),
                    !["render"].pc = "done"]
    /\ UNCHANGED <<agencyVars, properties, contacts, campaigns, sessions>>

NextRender ==
    \/ Render

SpecRender == InitRender /\ [][NextRender]_vars

(***************************************************************************)
(* The agent's background run on a session                                 *)
(*                                                                         *)
(* executeGoal stores the session and schedules executeAsync with          *)
(* setImmediate. executeAsync marks the session thinking and hands it to   *)
(* the stub, or to the configured provider: executeWithOpenAI and          *)
(* executeWithGemini load the session, call the provider once, and either  *)
(* store the final answer or run the tools asked for, save, and call       *)
(* themselves again. An exception anywhere ends in executeAsync's catch.   *)
(***************************************************************************)
MaxProviderCalls == 2   \* provider calls in one run
MaxToolCalls == 2       \* tool calls in one provider response

\* getAiConfig: no API key, or the provider AI_PROVIDER names.
AiConfigs == {"disabled", "openai", "google"}

\* The slots of calls that hold a background run.
RunSlots == {"agent", "agent2"}

\* A provider response: how many tool calls it carries, and whether it
\* carries text.
Responses == [toolCalls : 0 .. MaxToolCalls, text : BOOLEAN]

\* A save that writes the whole array it holds in memory.
MutSaveOverwrites(stored, doc, clean, pushed) ==
    [stored EXCEPT
        !.messages = doc.messages,
        !.agentStatus = IF doc.agentStatus # clean.agentStatus THEN doc.agentStatus ELSE @,
        !.status = IF doc.status # clean.status THEN doc.status ELSE @,
        !.messageCount = IF doc.messageCount # clean.messageCount THEN doc.messageCount ELSE @]

\* session.save(): the entries pushed on the array since it was loaded are
\* appended to the stored array ($push); of the other paths, those whose
\* value was changed are set.
Save(stored, doc, clean, pushed) ==
    [stored EXCEPT
        !.messages = @ \o pushed,
        !.agentStatus = IF doc.agentStatus # clean.agentStatus THEN doc.agentStatus ELSE @,
        !.status = IF doc.status # clean.status THEN doc.status ELSE @,
        !.messageCount = IF doc.messageCount # clean.messageCount THEN doc.messageCount ELSE @]

\* findByIdAndUpdate(id, update) under the schema's strict mode: the paths
\* of the update that the schema does not have are dropped.
StrictUpdate(stored, update) ==
    [f \in DOMAIN stored |-> IF f \in DOMAIN update THEN update[f] ELSE stored[f]]

\* How far a run is followed: the provider calls it makes, and the tool
\* calls one response carries.
RunBudget == [providerCalls |-> MaxProviderCalls, toolCalls |-> MaxToolCalls]

\* A run as setImmediate holds it.
ScheduledRun(sessionId, config, budget) ==
    [pc |-> "scheduled", sessionId |-> sessionId, config |-> config, budget |-> budget,
     providerCalls |-> 0, response |-> None, doc |-> None, clean |-> None,
     loaded |-> <<>>, pushed |-> <<>>, pending |-> 0, skipped |-> 0,
     answered |-> FALSE, thrown |-> None]

Run == calls["agent"]
RunUnchanged == UNCHANGED <<agencyVars, properties, contacts, campaigns>>

\* executeAsync: findById.
ExecuteAsync(r) ==
    /\ calls[r].pc = "scheduled"
    /\ calls' = [calls EXCEPT ![r].pc = "thinking",
                              ![r].doc = sessions[calls[r].sessionId],
                              ![r].clean = sessions[calls[r].sessionId]]
    /\ UNCHANGED sessions
    /\ RunUnchanged

\* executeAsync: agentStatus = THINKING; save.
SaveThinking(r) ==
    /\ calls[r].pc = "thinking"
    /\ LET c == calls[r]
           doc == [c.doc EXCEPT !.agentStatus = "thinking"]
       IN /\ sessions' = [sessions EXCEPT ![c.sessionId] = Save(@, doc, c.clean, <<>>)]
          /\ calls' = [calls EXCEPT ![r].pc = "provider", ![r].doc = doc, ![r].clean = doc]
    /\ RunUnchanged

\* executeStubMode: findById.
StubRead(r) ==
    /\ calls[r].pc = "provider"
    /\ calls[r].config = "disabled"
    /\ calls' = [calls EXCEPT ![r].pc = "stub",
                              ![r].doc = sessions[calls[r].sessionId],
                              ![r].clean = sessions[calls[r].sessionId],
                              ![r].loaded = sessions[calls[r].sessionId].messages]
    /\ UNCHANGED sessions
    /\ RunUnchanged

\* A stub that leaves the session's status alone.
MutStubStaysActive(r) ==
    /\ calls[r].pc = "stub"
    /\ LET c == calls[r]
           doc == [c.doc EXCEPT !.messages = Append(@, StubEntry),
                                !.agentStatus = "idle",
                                !.messageCount = Len(c.doc.messages) + 1]
       IN /\ sessions' = [sessions EXCEPT
                             ![c.sessionId] = Save(@, doc, c.clean, <<StubEntry>>)]
          /\ calls' = [calls EXCEPT ![r].pc = "done", ![r].doc = doc, ![r].clean = doc]
    /\ RunUnchanged

\* executeStubMode: the fixed assistant entry, agentStatus IDLE, status
\* COMPLETED, messageCount; save.
ExecuteStubMode(r) ==
    /\ calls[r].pc = "stub"
    /\ LET c == calls[r]
           doc == [c.doc EXCEPT !.messages = Append(@, StubEntry),
                                !.agentStatus = "idle",
                                !.status = "completed",
                                !.messageCount = Len(c.doc.messages) + 1]
       IN /\ sessions' = [sessions EXCEPT
                             ![c.sessionId] = Save(@, doc, c.clean, <<StubEntry>>)]
          /\ calls' = [calls EXCEPT ![r].pc = "done", ![r].doc = doc, ![r].clean = doc]
    /\ RunUnchanged

\* findById, then openai.chat.completions.create / chat.sendMessage: the
\* provider answers, or the call throws.
ProviderCall(r) ==
    /\ calls[r].pc = "provider"
    /\ calls[r].config # "disabled"
    /\ calls[r].providerCalls < calls[r].budget.providerCalls
    /\ LET c == calls[r]
           read == [c EXCEPT !.providerCalls = @ + 1,
                             !.doc = sessions[c.sessionId],
                             !.clean = sessions[c.sessionId],
                             !.loaded = sessions[c.sessionId].messages,
                             !.pushed = <<>>,
                             !.skipped = 0]
       IN \/ \E response \in Responses :
                /\ response.toolCalls <= c.budget.toolCalls
                /\ response.toolCalls > 0 => c.providerCalls + 1 < c.budget.providerCalls
                /\ calls' = [calls EXCEPT ![r] =
                                [read EXCEPT !.pc = "response", !.response = response]]
          \/ calls' = [calls EXCEPT ![r] =
                          [read EXCEPT !.pc = "catch", !.thrown = "provider"]]
    /\ UNCHANGED sessions
    /\ RunUnchanged

\* A final answer that is stored whether or not it has text.
MutFinalAnswerAlwaysPushes(r) ==
    /\ calls[r].pc = "response"
    /\ calls[r].response.toolCalls = 0
    /\ LET c == calls[r]
           doc == [c.doc EXCEPT !.messages = Append(@, AssistantEntry),
                                !.agentStatus = "idle",
                                !.messageCount = Len(c.doc.messages) + 1]
       IN /\ sessions' = [sessions EXCEPT
                             ![c.sessionId] = Save(@, doc, c.clean, <<AssistantEntry>>)]
          /\ calls' = [calls EXCEPT ![r].pc = "done", ![r].answered = TRUE,
                                    ![r].doc = doc, ![r].clean = doc]
    /\ RunUnchanged

\* No tool call: the text, if there is any, is pushed as an assistant entry;
\* agentStatus = IDLE, messageCount, save.
FinalAnswer(r) ==
    /\ calls[r].pc = "response"
    /\ calls[r].response.toolCalls = 0
    /\ LET c == calls[r]
           pushed == IF c.response.text THEN <<AssistantEntry>> ELSE <<>>
           doc == [c.doc EXCEPT !.messages = @ \o pushed,
                                !.agentStatus = "idle",
                                !.messageCount = Len(c.doc.messages) + Len(pushed)]
       IN /\ sessions' = [sessions EXCEPT ![c.sessionId] = Save(@, doc, c.clean, pushed)]
          /\ calls' = [calls EXCEPT ![r].pc = "done", ![r].answered = TRUE,
                                    ![r].doc = doc, ![r].clean = doc]
    /\ RunUnchanged

\* Tool calls: agentStatus = EXECUTING, save.
ToolsBegin(r) ==
    /\ calls[r].pc = "response"
    /\ calls[r].response.toolCalls > 0
    /\ LET c == calls[r]
           doc == [c.doc EXCEPT !.agentStatus = "executing"]
       IN /\ sessions' = [sessions EXCEPT ![c.sessionId] = Save(@, doc, c.clean, <<>>)]
          /\ calls' = [calls EXCEPT ![r].pc = "tools", ![r].doc = doc, ![r].clean = doc,
                                    ![r].pending = c.response.toolCalls]
    /\ RunUnchanged

\* What handling one tool call comes to: the tool returns its result; the
\* tool fails inside its own try and returns a failure result; the call
\* names no tool of the registry and is passed over; the call's arguments do
\* not parse (JSON.parse, with OpenAI only) and the exception leaves the
\* loop.
ToolOutcomes(config) ==
    {"success", "failure", "unknown"} \cup (IF config = "openai" THEN {"malformed"} ELSE {})

\* One tool call of the response, handled on the loaded session.
ToolCall(r) ==
    /\ calls[r].pc = "tools"
    /\ calls[r].pending > 0
    /\ \E outcome \in ToolOutcomes(calls[r].config) :
          calls' = [calls EXCEPT ![r] =
              IF outcome \in {"success", "failure"}
              THEN [@ EXCEPT !.pending = @ - 1,
                             !.pushed = Append(@, ToolEntry(outcome)),
                             !.doc = [@ EXCEPT !.messages = Append(@, ToolEntry(outcome))]]
              ELSE IF outcome = "unknown"
              THEN [@ EXCEPT !.pending = @ - 1, !.skipped = @ + 1]
              ELSE [@ EXCEPT !.pc = "catch", !.thrown = "arguments"]]
    /\ UNCHANGED sessions
    /\ RunUnchanged

\* After the tool loop: messageCount, save, and the next call of the same
\* method.
ToolsSave(r) ==
    /\ calls[r].pc = "tools"
    /\ calls[r].pending = 0
    /\ LET c == calls[r]
           doc == [c.doc EXCEPT !.messageCount = Len(c.doc.messages)]
       IN /\ sessions' = [sessions EXCEPT ![c.sessionId] = Save(@, doc, c.clean, c.pushed)]
          /\ calls' = [calls EXCEPT ![r].pc = "provider", ![r].doc = doc, ![r].clean = doc]
    /\ RunUnchanged

\* executeAsync's catch: findByIdAndUpdate(sessionId, {agentStatus: IDLE,
\* lastError: error.message}).
CatchError(r) ==
    /\ calls[r].pc = "catch"
    /\ sessions' = [sessions EXCEPT ![calls[r].sessionId] =
                       StrictUpdate(@, [agentStatus |-> "idle", lastError |-> "error"])]
    /\ calls' = [calls EXCEPT ![r].pc = "done"]
    /\ RunUnchanged

\* A session as executeGoal stored it, its run scheduled.
InitRun ==
    /\ InitAgency
    /\ properties = <<>>
    /\ contacts = <<>>
    /\ campaigns = <<>>
    /\ \E user \in {u \in Actors : u.agencyId # None}, config \in AiConfigs :
          /\ sessions = <<NewSession([goal |-> "goal"], user)>>
          /\ calls = [slot \in Slots |->
                         IF slot = "agent" THEN ScheduledRun(1, config, RunBudget) ELSE NoCall]

NextRun ==
    \/ \E r \in RunSlots : ExecuteAsync(r)
    \/ \E r \in RunSlots : SaveThinking(r)
    \/ \E r \in RunSlots : StubRead(r)
    \/ \E r \in RunSlots : ExecuteStubMode(r)
    \/ \E r \in RunSlots : ProviderCall(r)
    \/ \E r \in RunSlots : FinalAnswer(r)
    \/ \E r \in RunSlots : ToolsBegin(r)
    \/ \E r \in RunSlots : ToolCall(r)
    \/ \E r \in RunSlots : ToolsSave(r)
    \/ \E r \in RunSlots : CatchError(r)

SpecRun == InitRun /\ [][NextRun]_vars

(***************************************************************************)
(* chat on a session, next to the background runs                          *)
(*                                                                         *)
(* chat loads the session with findSession, pushes the user's message,     *)
(* saves, and schedules a run of its own; the run that executeGoal (or an  *)
(* earlier chat) scheduled may still be going. Every findById and every    *)
(* save is one operation on the store, and the operations of the request   *)
(* and of the runs interleave.                                             *)
(***************************************************************************)

\* chat: findSession passed.
ChatRead(user) ==
    \E sid \in DOMAIN sessions :
        /\ calls["chat"].pc = "idle"
        /\ ~(sessions[sid].userId # user.userId /\ sessions[sid].agencyId # user.agencyId)
        /\ calls' = [calls EXCEPT !["chat"] =
                        [pc |-> "save", sessionId |-> sid, doc |-> sessions[sid]]]
        /\ UNCHANGED sessions
        /\ RunUnchanged

\* chat: push the user's message, agentStatus THINKING, messageCount, save;
\* setImmediate(executeAsync).
ChatSave ==
    /\ calls["chat"].pc = "save"
    /\ LET c == calls["chat"]
           entry == UserEntry("message")
           doc == [c.doc EXCEPT !.messages = Append(@, entry),
                                !.agentStatus = "thinking",
                                !.messageCount = Len(c.doc.messages) + 1]
       IN /\ sessions' = [sessions EXCEPT ![c.sessionId] = Save(@, doc, c.doc, <<entry>>)]
          /\ calls' = [calls EXCEPT !["chat"].pc = "done", !["chat"].doc = doc,
                                    !["agent2"] = ScheduledRun(c.sessionId, Run.config, Run.budget)]
    /\ RunUnchanged

\* The session's owner and a colleague of the same agency.
ChatUsers ==
    {AuthenticatedUser("mgr1", MANAGER, "A1"), AuthenticatedUser("agt1", AGENT, "A1")}

\* Next to a chat, a run is followed through one round of one tool call.
ChatBudget == [providerCalls |-> 2, toolCalls |-> 1]

\* A session as executeGoal stored it, its run scheduled, no chat yet.
InitChat ==
    /\ InitAgency
    /\ properties = <<>>
    /\ contacts = <<>>
    /\ campaigns = <<>>
    /\ \E config \in AiConfigs :
          /\ sessions = <<NewSession([goal |-> "goal"], AuthenticatedUser("mgr1", MANAGER, "A1"))>>
          /\ calls = [slot \in Slots |->
                         IF slot = "agent" THEN ScheduledRun(1, config, ChatBudget) ELSE NoCall]

NextChat ==
    \/ \E user \in ChatUsers : ChatRead(user)
    \/ ChatSave
    \/ \E r \in RunSlots : ExecuteAsync(r)
    \/ \E r \in RunSlots : SaveThinking(r)
    \/ \E r \in RunSlots : StubRead(r)
    \/ \E r \in RunSlots : ExecuteStubMode(r)
    \/ \E r \in RunSlots : ProviderCall(r)
    \/ \E r \in RunSlots : FinalAnswer(r)
    \/ \E r \in RunSlots : ToolsBegin(r)
    \/ \E r \in RunSlots : ToolCall(r)
    \/ \E r \in RunSlots : ToolsSave(r)
    \/ \E r \in RunSlots : CatchError(r)

SpecChat == InitChat /\ [][NextChat]_vars

\* The same, with every pending await resumed and every scheduled run
\* started: Node's event loop leaves no settled promise and no setImmediate
\* callback waiting for ever.
SpecTurns == InitChat /\ [][NextChat]_vars /\ WF_vars(NextChat)

(***************************************************************************)
(* Registration and login (auth service and POST /auth/register, public)   *)
(*                                                                         *)
(* The route takes email, password, name, phone and role from the request  *)
(* body and hands them to register; register stores the user and answers   *)
(* with a token made from the stored document.                             *)
(***************************************************************************)
Emails == {"e1", "e2", "e3"}

\* The request body: role absent, a UserRole, or a string that is none.
RegisterDtos == [email : Emails, role : UserRoles \cup {None, "owner"}]

\* register: findOne({ email }), then UserModel.create with role: role ||
\* 'viewer'; the schema's enum validator refuses a role that is no UserRole.
AuthRegister(dto) ==
    IF dto.email \in DOMAIN users THEN [result |-> "BadRequest", users |-> users]
    ELSE LET role == IF dto.role # None THEN dto.role ELSE VIEWER
         IN IF role \notin UserRoles
            THEN [result |-> "ValidationError", users |-> users]
            ELSE [result |-> "ok",
                  users |-> (dto.email :> [role |-> role, agencyId |-> None]) @@ users]

\* POST /auth/register: the user is stored and the response carries the
\* token generateToken made of it.
Register(dto) ==
    LET o == AuthRegister(dto)
    IN /\ o.result = "ok"
       /\ users' = o.users
       /\ calls' = [calls EXCEPT !["login"] =
                       [pc |-> "issued",
                        token |-> AuthenticatedUser(dto.email, o.users[dto.email].role,
                                                    o.users[dto.email].agencyId)]]
       /\ UNCHANGED <<agencies, pending, registered, properties, contacts, campaigns, sessions>>

\* POST /auth/login of a stored user: a token of the stored document.
Login(email) ==
    /\ email \in DOMAIN users
    /\ calls' = [calls EXCEPT !["login"] = [pc |-> "issued", token |-> GenerateToken(email)]]
    /\ UNCHANGED <<agencyVars, properties, contacts, campaigns, sessions>>

\* No user is stored yet.
InitRegister ==
    /\ users = <<>>
    /\ agencies = [id \in AgencyIds |-> NoDoc]
    /\ pending = <<>>
    /\ registered = {}
    /\ InitResourcesIdle

NextRegister ==
    \/ \E dto \in RegisterDtos : Register(dto)
    \/ \E email \in Emails : Login(email)

SpecRegister == InitRegister /\ [][NextRegister]_vars

(***************************************************************************)
(* Requests under a token issued earlier                                   *)
(*                                                                         *)
(* jwtAuthMiddleware verifies the token's signature and expiry and takes   *)
(* userId, role and agencyId from its payload: the user document is not    *)
(* read. A client keeps the token it was given at login while agencies are *)
(* created and removed and members added and removed. One agency is        *)
(* followed: every create names the same registration number.              *)
(***************************************************************************)

\* The token the client holds, as jwtAuthMiddleware decodes it into req.user.
HeldToken == calls["login"].token

\* POST /properties under the held token.
TokenPropertyCreate ==
    /\ calls["login"].pc = "issued"
    /\ properties = <<>>
    /\ \E dto \in [agency : AgencyIds] :
          LET o == RoutePropertiesCreate(dto, HeldToken)
          IN /\ o.result = "ok"
             /\ properties' = o.properties
    /\ UNCHANGED <<agencyVars, contacts, campaigns, sessions, calls>>

NextToken ==
    \/ \E u \in Users : Create(u, "c1")
    \/ \E u \in Users, id \in AgencyIds, t \in Users : AddMember(u, id, t)
    \/ \E u \in Users, id \in AgencyIds, t \in Users : RemoveMember(u, id, t)
    \/ \E u \in Users, id \in AgencyIds : Remove(u, id)
    \/ \E u \in Users : Login(u)
    \/ TokenPropertyCreate

SpecToken == Init /\ [][NextToken]_vars

(***************************************************************************)
(* The tools of an agent turn (agents.service.ts getToolsForAgent)         *)
(*                                                                         *)
(* Each tool's execute is called with the arguments the provider chose and *)
(* with the user who asked for the turn; the routes of the agent           *)
(* (execute-goal, chat) are behind jwtAuthMiddleware only, so that user    *)
(* has any role. A phone number is named by the contact that has it, or is *)
(* the number of no stored contact.                                        *)
(***************************************************************************)
NoContact == 0

ToolOut(success, ids, sent, props) ==
    [success |-> success, ids |-> ids, sent |-> sent, properties |-> props]

\* search_properties: findAll(execUser, {...input, agency: execUser.agencyId})
SearchPropertiesTool(input, execUser) ==
    LET o == PropertiesFindAll(execUser, [agency |-> execUser.agencyId])
    IN ToolOut(o.result = "ok", o.ids, {}, properties)

\* get_property_details: findOne(input.propertyId, execUser)
GetPropertyDetailsTool(input, execUser) ==
    IF "propertyId" \notin DOMAIN input THEN ToolOut(FALSE, {}, {}, properties)
    ELSE LET o == PropertiesFindOne(input.propertyId, execUser)
         IN ToolOut(o.result = "ok",
                    IF o.result = "ok" THEN {input.propertyId} ELSE {},
                    {}, o.properties)

\* search_contacts: findAll(execUser, input)
SearchContactsTool(input, execUser) ==
    LET o == ContactsFindAll(execUser, input)
    IN ToolOut(o.result = "ok", o.ids, {}, properties)

\* send_whatsapp_message: sendTextMessage('default', {number: input.phone,
\* text: input.message}); delivered: whether the bridge sent or threw.
SendWhatsappMessageTool(input, delivered, execUser) ==
    IF "phone" \notin DOMAIN input \/ "message" \notin DOMAIN input
    THEN ToolOut(FALSE, {}, {}, properties)
    ELSE IF ~delivered THEN ToolOut(FALSE, {}, {}, properties)
    ELSE ToolOut(TRUE, {}, {input.phone}, properties)

\* POST /agents/execute-goal: the session is stored and its turn runs for
\* the requesting user.
ToolsExecuteGoal(user) ==
    /\ sessions = <<>>
    /\ LET o == ExecuteGoal([goal |-> "goal"], user)
       IN /\ o.result = "ok"
          /\ sessions' = o.sessions
    /\ calls' = [calls EXCEPT !["tool"] = [pc |-> "turn", user |-> user, n |-> 0]]
    /\ UNCHANGED <<agencyVars, properties, contacts, campaigns>>

\* One tool call of the turn: tool.execute(args, user).
ToolExecute ==
    /\ calls["tool"].pc \in {"turn", "done"}
    /\ calls["tool"].n < MaxToolCalls
    /\ LET user == calls["tool"].user
       IN \E name \in {"search_properties", "get_property_details",
                        "search_contacts", "send_whatsapp_message"} :
             \E o \in CASE name = "search_properties" ->
                              {SearchPropertiesTool(<<>>, user)}
                        [] name = "get_property_details" ->
                              {GetPropertyDetailsTool(input, user) :
                                  input \in [propertyId : 1 .. Len(properties) + 1]
                                            \cup {<<>>}}
                        [] name = "search_contacts" ->
                              {SearchContactsTool(f, user) :
                                  f \in [agency : AgencyIds \cup {None}, assignedTo : {None}]}
                        [] OTHER ->
                              {SendWhatsappMessageTool(input, delivered, user) :
                                  input \in [phone : DOMAIN contacts \cup {NoContact},
                                             message : {"text"}]
                                            \cup {[message |-> "text"]},
                                  delivered \in BOOLEAN} :
                /\ properties' = o.properties
                /\ calls' = [calls EXCEPT !["tool"] =
                                [pc |-> "done", user |-> user, n |-> calls["tool"].n + 1,
                                 name |-> name, success |-> o.success, ids |-> o.ids, sent |-> o.sent]]
    /\ UNCHANGED <<agencyVars, contacts, campaigns, sessions>>

\* At most one stored property and one stored contact, of either agency.
InitTools ==
    /\ InitAgency
    /\ campaigns = <<>>
    /\ sessions = <<>>
    /\ calls = [slot \in Slots |-> NoCall]
    /\ contacts \in StoredContacts(1)
    /\ properties \in {<<>>} \cup {<<[agency |-> a, isActive |-> TRUE, views |-> 0]>> :
                                       a \in AgencyIds}

NextTools ==
    \/ \E user \in Actors : ToolsExecuteGoal(user)
    \/ ToolExecute

SpecTools == InitTools /\ [][NextTools]_vars

(***************************************************************************)
(* Properties of tenant scoping and role checks                            *)
(***************************************************************************)
NonAdmins == {user \in Actors : user.role # ADMIN}
Admins == {user \in Actors : user.role = ADMIN}
Agents == {user \in Actors : user.role = AGENT}
Viewers == {user \in Actors : user.role = VIEWER}

AgencyFilters == [agency : AgencyIds \cup {None}]
ContactFilters == [agency : AgencyIds \cup {None}, assignedTo : Assignees \cup {None}]

\* Request ids: every stored document and one id that is not stored.
Ids(store) == 1 .. (Len(store) + 1)

PropertyDtos == [agency : AgencyIds] \cup [agency : AgencyIds, isActive : BOOLEAN]
ContactDtos == [agency : AgencyIds \cup {None}, assignedTo : Assignees \cup {None}]

ResUnchanged(o) ==
    <<o.properties, o.contacts, o.campaigns>> = <<properties, contacts, campaigns>>

Denied(o) == o.result = "Forbidden" /\ ResUnchanged(o)

\* C1: for every non-admin actor and any filters (an agency filter
\* included), the listings of properties, contacts and campaigns return only
\* documents of the actor's agency, and an actor with no agency gets
\* Forbidden and no list.
C1_ListingsAreTenantScoped ==
    \A user \in NonAdmins :
        /\ \A f \in AgencyFilters :
              /\ PropertiesFindAll(user, f).result =
                     IF user.agencyId = None THEN "Forbidden" ELSE "ok"
              /\ CampaignsFindAll(user, f).result =
                     IF user.agencyId = None THEN "Forbidden" ELSE "ok"
              /\ \A i \in PropertiesFindAll(user, f).ids :
                     user.agencyId # None /\ properties[i].agency = user.agencyId
              /\ \A i \in CampaignsFindAll(user, f).ids :
                     user.agencyId # None /\ campaigns[i].agency = user.agencyId
        /\ \A f \in ContactFilters :
              /\ ContactsFindAll(user, f).result =
                     IF user.agencyId = None THEN "Forbidden" ELSE "ok"
              /\ \A i \in ContactsFindAll(user, f).ids :
                     user.agencyId # None /\ contacts[i].agency = user.agencyId

\* A non-admin actor of one agency lists properties with the agency filter
\* naming another agency whose property is stored and active, and gets its
\* own agency's property.
C1_Witness ==
    \E user \in NonAdmins, f \in AgencyFilters, i, j \in DOMAIN properties :
        /\ user.agencyId # None
        /\ f.agency \notin {None, user.agencyId}
        /\ properties[i].agency = f.agency /\ properties[i].isActive
        /\ properties[j].agency = user.agencyId
        /\ PropertiesFindAll(user, f).ids = {j}

\* C2: for every actor with role agent, contact listing (any filters, an
\* assignedTo filter naming another user included), contact update and
\* contact delete never return or modify a contact whose assignedTo differs
\* from the actor.
C2_AgentOnlyOwnContacts ==
    \A user \in Agents :
        /\ \A f \in ContactFilters :
              \A i \in ContactsFindAll(user, f).ids : contacts[i].assignedTo = user.userId
        /\ \A id \in DOMAIN contacts :
              contacts[id].assignedTo # user.userId =>
                  /\ \A t \in Assignees \cup {None} :
                        ResUnchanged(RouteContactsUpdate(id, [assignedTo |-> t], user))
                  /\ ResUnchanged(RouteContactsRemove(id, user))

\* C3: an actor with role admin is never answered Forbidden, whatever the
\* actor's own agency (none included) and whatever the target's agency or
\* owner: execute-goal, session read and chat, and the reads and writes of
\* properties, contacts and campaigns.
C3_AdminNeverForbidden ==
    \A user \in Admins :
        /\ \A g \in Goals : ExecuteGoal([goal |-> g], user).result # "Forbidden"
        /\ \A sid \in Ids(sessions) :
              /\ FindSession(sid, user).result # "Forbidden"
              /\ Chat([sessionId |-> sid, message |-> "message"], user).result # "Forbidden"
        /\ \A f \in ContactFilters :
              /\ PropertiesFindAll(user, [agency |-> f.agency]).result # "Forbidden"
              /\ CampaignsFindAll(user, [agency |-> f.agency]).result # "Forbidden"
              /\ ContactsFindAll(user, f).result # "Forbidden"
        /\ \A dto \in PropertyDtos : RoutePropertiesCreate(dto, user).result # "Forbidden"
        /\ \A dto \in ContactDtos : RouteContactsCreate(dto, user).result # "Forbidden"
        /\ \A dto \in CampaignDtos : RouteCampaignsCreate(dto, user).result # "Forbidden"
        /\ \A id \in Ids(properties) :
              /\ PropertiesFindOne(id, user).result # "Forbidden"
              /\ RoutePropertiesRemove(id, user).result # "Forbidden"
        /\ \A id \in Ids(contacts) :
              /\ ContactsFindOne(id, user).result # "Forbidden"
              /\ RouteContactsRemove(id, user).result # "Forbidden"
        /\ \A id \in Ids(campaigns) :
              /\ CampaignsFindOne(id, user).result # "Forbidden"
              /\ \A outcomes \in Outcomes(id) :
                    RouteCampaignsExecute(id, outcomes, user).result # "Forbidden"
              /\ RouteCampaignsRemove(id, user).result # "Forbidden"

\* C4: for every non-admin actor, reading a property, contact or campaign by
\* id is answered Forbidden whenever the document's agency is not the
\* actor's agency (a contact with no agency and an actor with no agency
\* included), and the denied read changes nothing stored.
C4_ReadDeniedAcrossTenants ==
    \A user \in NonAdmins :
        /\ \A id \in DOMAIN properties :
              properties[id].agency # user.agencyId => Denied(PropertiesFindOne(id, user))
        /\ \A id \in DOMAIN campaigns :
              campaigns[id].agency # user.agencyId => Denied(CampaignsFindOne(id, user))
        /\ \A id \in DOMAIN contacts :
              (contacts[id].agency = None \/ contacts[id].agency # user.agencyId)
                  => Denied(ContactsFindOne(id, user))

\* C5: an actor with role viewer never creates, updates, soft-deletes or
\* executes a property, contact or campaign and never appends a contact
\* interaction through a route: each such request is answered Forbidden and
\* leaves the stores unchanged.
C5_ViewerNeverWrites ==
    \A user \in Viewers :
        /\ \A dto \in PropertyDtos : Denied(RoutePropertiesCreate(dto, user))
        /\ \A dto \in ContactDtos : Denied(RouteContactsCreate(dto, user))
        /\ \A dto \in CampaignDtos : Denied(RouteCampaignsCreate(dto, user))
        /\ \A id \in Ids(properties) :
              /\ \A dto \in [isActive : BOOLEAN] : Denied(RoutePropertiesUpdate(id, dto, user))
              /\ Denied(RoutePropertiesRemove(id, user))
        /\ \A id \in Ids(contacts) :
              /\ \A t \in Assignees \cup {None} :
                    Denied(RouteContactsUpdate(id, [assignedTo |-> t], user))
              /\ Denied(RouteContactsRemove(id, user))
              /\ Denied(RouteContactsAddInteraction(id, [type |-> "call"], user))
              /\ \A sendOk \in BOOLEAN : Denied(RouteContactsSendWhatsapp(id, sendOk, user))
        /\ \A id \in Ids(campaigns) :
              /\ \A st \in {"paused", "running"} :
                    Denied(RouteCampaignsUpdate(id, [status |-> st], user))
              /\ \A outcomes \in Outcomes(id) :
                    Denied(RouteCampaignsExecute(id, outcomes, user))
              /\ Denied(RouteCampaignsRemove(id, user))

\* A viewer asks to log an interaction on a contact of the viewer's own
\* agency, which the service alone would accept, and the route answers
\* Forbidden.
C5_Witness ==
    \E user \in Viewers, id \in DOMAIN contacts :
        /\ contacts[id].agency \in AgencyIds
        /\ contacts[id].agency = user.agencyId
        /\ ContactsAddInteraction(id, [type |-> "call"], user).result = "ok"
        /\ Denied(RouteContactsAddInteraction(id, [type |-> "call"], user))

(***************************************************************************)
(* Properties of campaign execution                                        *)
(***************************************************************************)
Execution == calls["execute"]
Executing == Execution.pc \notin {"idle", "scheduled", "done"}
Executed(r) == Execution.pc = "done" /\ Execution.result = r

IsPrefix(p, q) == Len(p) <= Len(q) /\ \A i \in DOMAIN p : p[i] = q[i]

\* C12 as claimed, its last part: a campaign is in status running only when
\* the audience of its execution is not empty.
C12_RunningOnlyWithAudience ==
    (Executing /\ campaigns[Execution.id].status = "running")
        => AudienceContacts(Execution.id) # {}

\* C12 as amended: an execution whose audience resolves to no contact is
\* answered BadRequest, makes no send attempt and leaves the campaign
\* completed with its counters untouched; the campaign is put into running
\* before the audience is resolved, whatever the audience turns out to be.
C12_EmptyAudienceCompletes ==
    /\ Execution.pc \in {"resolve", "empty", "loop", "finish"}
          => campaigns[Execution.id].status = "running"
    /\ Execution.pc = "empty" => AudienceContacts(Execution.id) = {}
    /\ (Execution.pc = "done" /\ Execution.audience = <<>>) =>
          /\ Execution.result = "BadRequest"
          /\ Execution.attempts = <<>>
          /\ campaigns[Execution.id].status = "completed"
          /\ campaigns[Execution.id].sent = 0
          /\ campaigns[Execution.id].failed = 0
    /\ \A id \in DOMAIN campaigns : \A user \in Requesters :
          (ExecuteCheck(id, user) = "proceed" /\ AudienceContacts(id) = {}) =>
              LET o == RouteCampaignsExecute(id, <<>>, user)
              IN o.result = "BadRequest" /\ o.campaigns[id].status = "completed"

\* An execution found contacts stored, none of them in the audience, and has
\* answered BadRequest.
C12_Witness ==
    /\ Executed("BadRequest")
    /\ contacts # <<>>
    /\ Execution.audience = <<>>

\* C13: when an execution over a non-empty audience finishes, the persisted
\* sent and failed add up to the number of contacts resolved by that
\* execution, for every pattern of deliveries and failures.
C13_SentPlusFailedIsAudience ==
    Executed("ok") =>
        /\ Execution.audience # <<>>
        /\ Len(Execution.audience) = Cardinality(AudienceContacts(Execution.id))
        /\ campaigns[Execution.id].sent = Execution.sent
        /\ campaigns[Execution.id].failed = Execution.failed
        /\ campaigns[Execution.id].sent + campaigns[Execution.id].failed
              = Len(Execution.audience)

\* A finished execution with deliveries and failures, on a campaign whose
\* creation-time totalContacts is another number.
C13_Witness ==
    /\ Executed("ok")
    /\ campaigns[Execution.id].sent > 0
    /\ campaigns[Execution.id].failed > 0
    /\ campaigns[Execution.id].totalContacts # Len(Execution.audience)

\* C14: within one execution every contact of the resolved audience gets
\* exactly one send attempt, in audience order, whether or not earlier sends
\* threw; a failed send is counted in failed and the loop goes on, and the
\* campaign ends completed.
C14_OneAttemptPerContact ==
    /\ Execution.pc \in {"loop", "finish"} =>
          /\ IsPrefix(Execution.attempts, Execution.audience)
          /\ Execution.sent + Execution.failed = Len(Execution.attempts)
          /\ Execution.pc = "finish" <=> Execution.attempts = Execution.audience
    /\ Executed("ok") =>
          /\ Execution.attempts = Execution.audience
          /\ Execution.sent + Execution.failed = Len(Execution.audience)
          /\ campaigns[Execution.id].status = "completed"

\* Three contacts, one of which made the bridge throw: sent 2, failed 1.
C14_Witness ==
    /\ Executed("ok")
    /\ Len(Execution.audience) = 3
    /\ campaigns[Execution.id].sent = 2
    /\ campaigns[Execution.id].failed = 1
    /\ campaigns[Execution.id].status = "completed"

\* C15: execute on a campaign whose status is running or completed is
\* answered BadRequest to a caller allowed to execute it (Forbidden to the
\* others), starts no execution and leaves the documents unchanged.
C15_NoExecuteWhenRunningOrCompleted ==
    \A id \in DOMAIN campaigns :
        campaigns[id].status \in {"running", "completed"} =>
            \A user \in Actors :
                LET allowed == /\ user.role \in {ADMIN, MANAGER}
                               /\ (user.role = ADMIN \/ user.agencyId = campaigns[id].agency)
                IN /\ ExecuteCheck(id, user) = IF allowed THEN "BadRequest" ELSE "Forbidden"
                   /\ \A outcomes \in Outcomes(id) :
                         LET o == RouteCampaignsExecute(id, outcomes, user)
                         IN /\ ResUnchanged(o)
                            /\ o.result = IF allowed THEN "BadRequest" ELSE "Forbidden"

\* An execution is half-way through its audience (the campaign is running),
\* or has finished it (completed).
C15_Witness ==
    \/ /\ Execution.pc = "loop"
       /\ Execution.attempts # <<>>
       /\ campaigns[Execution.id].status = "running"
    \/ /\ Executed("ok")
       /\ campaigns[Execution.id].status = "completed"

\* C18 as claimed: with a positive rateLimitMs the delay is taken n-1 times
\* over n contacts, before every send except the first, and never with
\* rateLimitMs 0.
C18_DelayBetweenSendsOnly ==
    Executed("ok") =>
        Execution.delays =
            IF Execution.rateLimitMs > 0 THEN Len(Execution.audience) - 1 ELSE 0

\* C18 as amended: with a positive rateLimitMs the delay is taken n times
\* over n contacts, before every send, the first included, and never with
\* rateLimitMs 0.
C18_DelayBeforeEverySend ==
    /\ Execution.pc \in {"loop", "finish"} =>
          Execution.delays =
              IF Execution.rateLimitMs = 0 THEN 0
              ELSE Len(Execution.attempts) + (IF Execution.delayed THEN 1 ELSE 0)
    /\ Executed("ok") =>
          Execution.delays =
              IF Execution.rateLimitMs > 0 THEN Len(Execution.audience) ELSE 0

\* An execution with a rate limit has waited before its first send.
C18_Witness ==
    /\ Execution.pc = "loop"
    /\ Execution.rateLimitMs > 0
    /\ Execution.delayed
    /\ Execution.attempts = <<>>

\* C16: while a campaign's status is running, no step of an update or of a
\* remove changes the campaign, for any interleaving of update and remove
\* with a running execution.
C16_NoWriteWhileRunning ==
    [][\A id \in DOMAIN campaigns :
          (/\ campaigns[id].status = "running"
           /\ \/ calls'["update"] # calls["update"]
              \/ calls'["remove"] # calls["remove"])
          => campaigns'[id] = campaigns[id]]_vars

\* The status changes the state machine allows.
AllowedTransitions ==
    {<<"draft", "scheduled">>, <<"scheduled", "running">>,
     <<"running", "completed">>, <<"scheduled", "paused">>,
     <<"scheduled", "cancelled">>}

\* C17: a campaign's status changes only along draft->scheduled,
\* scheduled->running, running->completed, scheduled->paused and
\* scheduled->cancelled, for every sequence of update and execute steps on a
\* created campaign.
C17_StatusTransitions ==
    [][\A id \in DOMAIN campaigns :
          campaigns'[id].status # campaigns[id].status
              => <<campaigns[id].status, campaigns'[id].status>> \in AllowedTransitions]_vars

(***************************************************************************)
(* Properties of template rendering                                        *)
(***************************************************************************)
Rendering == calls["render"]
Tokens(message) == {message[i] : i \in DOMAIN message}
Plain(value) == Tokens(value) \cap (ContactPlaceholders \cup {Matched}) = {}

RunSession == sessions[Run.sessionId]

\* C20 as claimed: a provider response with no tool calls ends the turn
\* with exactly one more entry in the stored transcript.
C20_NoToolCallsAppendsOneEntry ==
    (Run.pc = "done" /\ Run.answered) =>
        Len(RunSession.messages) = Len(Run.loaded) + 1

\* C20 as amended: a provider response with no tool calls ends the turn with
\* one assistant entry appended to the stored transcript when the response
\* has text and none when it has not, agentStatus idle, messageCount the
\* transcript's length, and no further provider call.
C20_NoToolCallsEndsTurn ==
    (Run.pc = "done" /\ Run.answered) =>
        /\ Run.response.toolCalls = 0
        /\ RunSession.messages =
              IF Run.response.text THEN Append(Run.loaded, AssistantEntry)
              ELSE Run.loaded
        /\ RunSession.agentStatus = "idle"
        /\ RunSession.messageCount = Len(RunSession.messages)
        /\ ~ENABLED ProviderCall("agent")

\* The second provider call of a run, after a round of tools, answered with
\* text and no tool call.
C20_Witness ==
    /\ Run.pc = "done"
    /\ Run.answered
    /\ Run.response.text
    /\ Run.providerCalls = 2
    /\ RunSession.messages = <<UserEntry("goal"), ToolEntry("success"), AssistantEntry>>

\* C21: when a response carries N >= 1 tool calls, N tool entries are on
\* the loaded session when the loop ends, one per call, and are the ones
\* stored, with agentStatus executing, before the provider is called again;
\* also when a call names a tool outside the registry.
C21_EveryToolCallAppendsAnEntry ==
    /\ (Run.pc = "tools" /\ Run.pending = 0) =>
          Len(Run.pushed) = Run.response.toolCalls
    /\ (Run.pc = "provider" /\ Run.providerCalls > 0) =>
          /\ Len(Run.pushed) = Run.response.toolCalls
          /\ RunSession.messages = Run.loaded \o Run.pushed
          /\ RunSession.agentStatus = "executing"

\* C22: no failure while a tool call is handled (malformed arguments
\* included) leaves the tool loop as an exception: every run that has thrown
\* has thrown in the provider call.
C22_ToolFailureNeverThrows ==
    Run.thrown # None => Run.thrown = "provider"

\* C23: a run that threw ends with lastError set on the session, agentStatus
\* idle and the session status unchanged.
C23_ThrownRunSetsLastError ==
    (Run.pc = "done" /\ Run.thrown # None) =>
        /\ "lastError" \in DOMAIN RunSession
        /\ RunSession.agentStatus = "idle"
        /\ RunSession.status = "active"

\* C24: with no AI provider configured, a run appends exactly the fixed demo
\* entry, sets the session status to completed and agentStatus to idle, and
\* calls neither a provider nor a tool.
C24_StubModeCompletes ==
    Run.config = "disabled" =>
        /\ Run.providerCalls = 0
        /\ Run.pc \in {"scheduled", "thinking", "provider", "stub", "done"}
        /\ Run.response = None
        /\ Run.pushed = <<>> /\ Run.skipped = 0 /\ Run.thrown = None
        /\ Run.pc = "done" =>
              /\ RunSession.messages = Append(Run.loaded, StubEntry)
              /\ RunSession.messages = <<UserEntry("goal"), StubEntry>>
              /\ RunSession.status = "completed"
              /\ RunSession.agentStatus = "idle"
              /\ RunSession.messageCount = 2
        /\ Run.pc # "done" => RunSession.messages = <<UserEntry("goal")>>

\* A run in stub mode has ended.
C24_Witness ==
    /\ Run.config = "disabled"
    /\ Run.pc = "done"
    /\ RunSession.status = "completed"
    /\ StubEntry = RunSession.messages[Len(RunSession.messages)]

\* C25: in every stored state of every session, messageCount is the length
\* of the transcript, for any interleaving of chat and the background runs.
C25_MessageCountIsLength ==
    \A sid \in DOMAIN sessions :
        sessions[sid].messageCount = Len(sessions[sid].messages)

\* C26: every stored transcript is a prefix of every transcript stored
\* later, for any interleaving of chat and the background runs, and the
\* message of a chat that has saved is in the transcript.
C26_TranscriptAppendOnly ==
    /\ [][\A sid \in DOMAIN sessions :
             IsPrefix(sessions[sid].messages, sessions'[sid].messages)]_vars
    /\ [](calls["chat"].pc = "done" =>
             \E i \in DOMAIN sessions[calls["chat"].sessionId].messages :
                 sessions[calls["chat"].sessionId].messages[i] = UserEntry("message"))

\* A run loaded the session before the chat saved its message, and stored
\* its answer after: both entries are in the transcript.
C26_Witness ==
    /\ calls["chat"].pc = "done"
    /\ Run.pc = "done"
    /\ Run.answered
    /\ Run.loaded = <<UserEntry("goal")>>
    /\ RunSession.messages = <<UserEntry("goal"), UserEntry("message"), AssistantEntry>>

\* C27: once a session's status is completed, archived or error, no step of
\* a chat or of a run changes its status or its transcript.
C27_TerminalStatuses ==
    [][\A sid \in DOMAIN sessions :
          sessions[sid].status \in {"completed", "archived", "error"} =>
              /\ sessions'[sid].status = sessions[sid].status
              /\ sessions'[sid].messages = sessions[sid].messages]_vars

\* C28: a manager, agent or viewer reads, lists and chats on only the
\* sessions they created: a session created by another user is not returned
\* to them by findSession or findSessions and is not modified by their chat.
C28_OnlyOwnSessions ==
    \A user \in NonAdmins : \A sid \in DOMAIN sessions :
        sessions[sid].userId # user.userId =>
            /\ FindSession(sid, user).result # "ok"
            /\ sid \notin FindSessions(user).ids
            /\ Chat([sessionId |-> sid, message |-> "message"], user).sessions = sessions

\* C29: after a property, contact or campaign has been soft-deleted, every
\* later get-by-id, update, delete or execute on it is answered NotFound,
\* for every actor, and no listing returns it.
C29_SoftDeletedIsNotFound ==
    \A user \in Actors :
        /\ \A id \in DOMAIN properties : ~properties[id].isActive =>
              /\ PropertiesFindOne(id, user).result = "NotFound"
              /\ \A dto \in [isActive : BOOLEAN] :
                    PropertiesUpdate(id, dto, user).result = "NotFound"
              /\ PropertiesRemove(id, user).result = "NotFound"
              /\ \A f \in AgencyFilters : id \notin PropertiesFindAll(user, f).ids
        /\ \A id \in DOMAIN contacts : ~contacts[id].isActive =>
              /\ ContactsFindOne(id, user).result = "NotFound"
              /\ ContactsRemove(id, user).result = "NotFound"
              /\ \A f \in ContactFilters : id \notin ContactsFindAll(user, f).ids
        /\ \A id \in DOMAIN campaigns : ~campaigns[id].isActive =>
              /\ CampaignsFindOne(id, user).result = "NotFound"
              /\ CampaignsRemove(id, user).result = "NotFound"
              /\ \A outcomes \in Outcomes(id) :
                    CampaignsExecute(id, outcomes, user).result = "NotFound"
              /\ \A f \in AgencyFilters : id \notin CampaignsFindAll(user, f).ids

\* C30: when the execution create started in the background has ended with
\* an exception, the campaign document holds the error (lastError).
C30_BackgroundFailureRecorded ==
    (/\ Execution.pc = "done"
     /\ Execution.background
     /\ Execution.result # "ok")
        => "lastError" \in DOMAIN campaigns[Execution.id]

\* C31: a campaign whose status is running eventually has status completed,
\* also when audience resolution or a store write of its execution fails.
C31_RunningReachesCompleted ==
    (campaigns[1].status = "running") ~> (campaigns[1].status = "completed")

\* No chat request and no run is under way.
Quiet ==
    /\ \A r \in RunSlots : calls[r].pc \in {"idle", "done"}
    /\ calls["chat"].pc \in {"idle", "done"}

\* idle -> thinking -> (executing ->)* idle, as steps of the stored value.
TurnSteps ==
    {<<"idle", "thinking">>, <<"thinking", "executing">>,
     <<"thinking", "idle">>, <<"executing", "idle">>}

\* C32: every scheduled turn ends, agentStatus is idle once no turn is under
\* way, and the stored agentStatus changes only along idle -> thinking ->
\* (executing ->)* idle.
C32_TurnsEndIdleInOrder ==
    /\ \A r \in RunSlots : (calls[r].pc = "scheduled") ~> (calls[r].pc = "done")
    /\ [](Quiet => sessions[1].agentStatus = "idle")
    /\ [][sessions'[1].agentStatus # sessions[1].agentStatus
            => <<sessions[1].agentStatus, sessions'[1].agentStatus>> \in TurnSteps]_vars

\* No execution is under way.
Quiet33 == \A x \in ExecuteSlots : calls[x].pc \in {"idle", "done"}

\* The contacts an execution has sent to, or tried to.
Attempts(x) == IF "attempts" \in DOMAIN calls[x] THEN calls[x].attempts ELSE <<>>

\* C33: of the execute calls on one campaign at most one sends, no contact
\* is sent the message by two of them, and the statistics of a completed
\* campaign are those of one execution.
C33_OneExecutionSends ==
    /\ Attempts("execute") = <<>> \/ Attempts("execute2") = <<>>
    /\ \A i \in DOMAIN Attempts("execute"), j \in DOMAIN Attempts("execute2") :
          Attempts("execute")[i] # Attempts("execute2")[j]
    /\ (Quiet33 /\ campaigns[1].status = "completed")
          => campaigns[1].sent + campaigns[1].failed = Cardinality(AudienceContacts(1))

\* A turn that has saved agentStatus thinking and has not ended.
TurnRunning(r) == calls[r].pc \in {"provider", "stub", "response", "tools", "catch"}

\* C34: of the turns of a session at most one is running at a time, and
\* agentStatus is idle only when none is.
C34_OneTurnAtATime ==
    /\ ~(TurnRunning("agent") /\ TurnRunning("agent2"))
    /\ sessions[1].agentStatus = "idle" => \A r \in RunSlots : ~TurnRunning(r)

\* C35: every contact an execution sends to is active and belongs to the
\* campaign's agency.
C35_SendsStayInTenant ==
    \A i \in DOMAIN Attempts("execute") :
        LET contact == contacts[Attempts("execute")[i]]
        IN contact.isActive /\ contact.agency = campaigns[calls["execute"].id].agency

(***************************************************************************)
(* Properties of agency administration                                     *)
(***************************************************************************)
Callers == {GenerateToken(u) : u \in DOMAIN users}
Unchanged(o) == o.agencies = agencies /\ o.users = users
MayAdminister(id, user) == user.role = ADMIN \/ agencies[id].owner = user.userId

\* C6 as claimed: removing the owner fails with BadRequest for every caller,
\* and changes neither the member set nor the owner's agencyId.
C6_OwnerRemovalAlwaysBadRequest ==
    \A id \in Stored : \A user \in Callers :
        LET o == AgenciesRemoveMember(id, agencies[id].owner, user)
        IN o.result = "BadRequest" /\ Unchanged(o)

\* C6 as amended: removing the owner never succeeds and changes nothing; it
\* fails with BadRequest for an admin or the owner, and with Forbidden for
\* every other caller (the permission check comes first).
C6_OwnerRemovalRejected ==
    \A id \in Stored : \A user \in Callers :
        LET o == AgenciesRemoveMember(id, agencies[id].owner, user)
        IN /\ Unchanged(o)
           /\ o.result = IF MayAdminister(id, user) THEN "BadRequest" ELSE "Forbidden"

C6_Witness ==
    \E id \in Stored :
        /\ agencies[id].members # {}
        /\ users[agencies[id].owner].agencyId = id
        /\ \E user \in Callers :
              ~MayAdminister(id, user) /\ user.userId \in agencies[id].members
        /\ \E user \in Callers : user.role = ADMIN /\ agencies[id].owner # user.userId

\* C7 as claimed: no two agencies share a cnpj, and once a create with cnpj c
\* has succeeded every later create with c is answered Conflict.
C7_ConflictOnceRegistered ==
    /\ \A i, j \in Stored : agencies[i].cnpj = agencies[j].cnpj => i = j
    /\ \A c \in registered : \A user \in Callers :
          CreateFindOne([cnpj |-> c], user) = "Conflict"

\* C7 as amended: no two agencies share a cnpj under any interleaving of
\* create calls, and a create issued while an agency with cnpj c is stored
\* (active or soft-deleted) is answered Conflict and changes no document.
C7_ConflictWhileStored ==
    /\ \A i, j \in Stored : agencies[i].cnpj = agencies[j].cnpj => i = j
    /\ \A c \in Cnpjs : \A user \in Callers :
          (\E id \in Stored : agencies[id].cnpj = c) =>
             /\ CreateFindOne([cnpj |-> c], user) = "Conflict"
             /\ AgenciesCreate([cnpj |-> c], user).result = "Conflict"
             /\ Unchanged(AgenciesCreate([cnpj |-> c], user))

C7_Witness ==
    \E c \in registered : \E u \in Users :
        /\ FindByCnpj(c) # {}
        /\ pending[u].pc = "save"
        /\ pending[u].cnpj = c

\* C8: update, addMember and removeMember by a caller who is neither admin
\* nor the agency's owner, and remove by a caller who is not admin, are
\* answered Forbidden and change no agency and no user.
C8_OnlyOwnerOrAdmin ==
    \A id \in Stored : \A user \in Callers :
        /\ ~MayAdminister(id, user) =>
              /\ \A c \in Cnpjs \cup {None} :
                    LET o == AgenciesUpdate(id, [cnpj |-> c], user)
                    IN o.result = "Forbidden" /\ Unchanged(o)
              /\ \A t \in Users :
                    LET o == AgenciesAddMember(id, t, user)
                    IN o.result = "Forbidden" /\ Unchanged(o)
              /\ \A t \in Users :
                    LET o == AgenciesRemoveMember(id, t, user)
                    IN o.result = "Forbidden" /\ Unchanged(o)
        /\ user.role # ADMIN =>
              LET o == RouteAgenciesRemove(id, user)
              IN o.result = "Forbidden" /\ Unchanged(o)

\* A manager who is a member of the agency, bound to it, and not its owner.
C8_Witness ==
    \E id \in Stored : \E user \in Callers :
        /\ user.role = MANAGER
        /\ user.userId \in agencies[id].members
        /\ user.agencyId = id
        /\ agencies[id].owner # user.userId

\* C9 as claimed: addMember of a user already in the agency (the owner
\* included) is answered Conflict, and the owner is never listed in the
\* members of their own agency.
C9_OwnerCountsAsMember ==
    \A id \in Stored :
        /\ agencies[id].owner \notin agencies[id].members
        /\ \A t \in agencies[id].members \cup {agencies[id].owner} :
              \A user \in Callers :
                 MayAdminister(id, user) =>
                    LET o == AgenciesAddMember(id, t, user)
                    IN o.result = "Conflict" /\ Unchanged(o)

\* C10: a remove that succeeds was called by an admin; after it the agency
\* is inactive, no user is bound to it any more, every other binding is as
\* before and every user document is still there.
C10_RemoveCascade ==
    \A id \in Stored : \A user \in Callers :
        LET o == RouteAgenciesRemove(id, user)
        IN /\ o.result = "ok" =>
                /\ user.role = ADMIN
                /\ o.agencies[id].isActive = FALSE
                /\ DOMAIN o.users = DOMAIN users
                /\ \A u \in DOMAIN users :
                      /\ o.users[u].role = users[u].role
                      /\ o.users[u].agencyId =
                            IF users[u].agencyId = id THEN None ELSE users[u].agencyId
           /\ user.role = ADMIN => o.result = "ok"
           /\ user.role # ADMIN => o.result = "Forbidden" /\ Unchanged(o)

\* An agency whose owner and a member are bound to it, about to be removed.
C10_Witness ==
    \E id \in Stored :
        /\ agencies[id].isActive
        /\ users[agencies[id].owner].agencyId = id
        /\ \E u \in agencies[id].members : users[u].agencyId = id

\* A user registered a moment ago: the default role and no agency.
FreshViewer == AuthenticatedUser("vwr1", VIEWER, None)
CreateCallers == Callers \cup {FreshViewer}

C36_RemoveNonMemberChangesNothing ==
    \A user \in Callers, id \in Stored, target \in DOMAIN users :
        target \notin agencies[id].members =>
            LET o == AgenciesRemoveMember(id, target, user)
            IN /\ o.users[target].agencyId = users[target].agencyId
               /\ \A other \in Stored : o.agencies[other].members = agencies[other].members

\* C37: every user listed in the members of a stored, active agency has that
\* agency as agencyId, and no user is listed in the members of two of them.
C37_MembersBoundToOneAgency ==
    LET active == {id \in Stored : agencies[id].isActive}
    IN /\ \A id \in active : \A u \in agencies[id].members : users[u].agencyId = id
       /\ \A a, b \in active : a # b => agencies[a].members \cap agencies[b].members = {}

\* C38: every user stored by the public registration has role viewer.
C38_RegisteredUsersAreViewers ==
    \A u \in DOMAIN users : users[u].role = VIEWER

\* User u has no tie to agency id any more: the agency was removed, or u is
\* neither its owner nor one of its members; and u's agencyId is another.
Untied(u, id) ==
    /\ users[u].agencyId # id
    /\ ~agencies[id].isActive \/ (u # agencies[id].owner /\ u \notin agencies[id].members)

\* C39: a request under the held token of a non-admin user, on an agency the
\* user has no tie to any more, neither creates a property in that agency
\* nor reads one of its properties.
C39_StaleTokenIsDenied ==
    calls["login"].pc = "issued" =>
        \A id \in Stored :
            (HeldToken.role # ADMIN /\ Untied(HeldToken.userId, id)) =>
                /\ RoutePropertiesCreate([agency |-> id], HeldToken).result # "ok"
                /\ \A p \in DOMAIN properties :
                      properties[p].agency = id =>
                          PropertiesFindOne(p, HeldToken).result # "ok"

\* C40: what a tool call of a turn did, its user could do through the
\* routes: a message was sent only for a user whose role may send WhatsApp
\* messages (admin, manager or agent, as POST /contacts/:id/send-whatsapp
\* requires); the properties found are ones the user can list or read.
C40_ToolsWithinUsersRights ==
    calls["tool"].pc = "done" =>
        LET c == calls["tool"]
        IN /\ c.sent # {} => c.user.role \in {ADMIN, MANAGER, AGENT}
           /\ c.name = "search_properties" =>
                c.ids \subseteq UNION {PropertiesFindAll(c.user, f).ids : f \in AgencyFilters}
           /\ c.name = "get_property_details" =>
                \A id \in c.ids : PropertiesFindOne(id, c.user).result = "ok"

====
